---- MODULE Spec2Model ----
(***************************************************************************)
(* Model of the autonomous agent of mcp-inspector:                         *)
(*   server/src/agent/agentOrchestrator.ts  (AgentOrchestrator)            *)
(*   server/src/agent/llmClient.ts          (ResourceGraph)                *)
(*   server/src/agent/claudeClient.ts       (ClaudeClient.selectNextTool)  *)
(*                                                                         *)
(* The orchestrator runs on one JavaScript thread.  Every await of         *)
(* runExecutionLoop is a suspension point; the code between two awaits is  *)
(* one atomic action.  start() and resume() each enter runExecutionLoop,   *)
(* so several activations of the loop can be suspended at the same time;   *)
(* each activation has its own locals (executedTools, toolDepths, nodeId,  *)
(* step, ...) and all of them share this.state, this.graph and             *)
(* this.abortController.                                                   *)
(***************************************************************************)
EXTENDS Integers, Sequences, FiniteSets, TLC

VARIABLES
    configured,   \* llmClient, toolCallFn and listToolsFn are non-null
    tools,        \* the catalog listToolsFn answers with
    clock,        \* tool name -> the last Date.now() addPendingTool read for it
    ctl,          \* number of control calls that took effect so far
    picksLeft,    \* how many more selections may name a tool to execute
    W,            \* this.state, this.graph, this.abortController, the loop
                  \* activations and what the orchestrator has emitted/called
    X,            \* the resource indexer: its list, its dedup set, its file
    U,            \* the profile manager: its profiles, the active profile id
    P,            \* the proxy: its flags, its table of pending requests, its
                  \* two transports
    F,            \* a function of the program applied on its own: its
                  \* arguments and, once it has returned, its result
    sel           \* the calls of selectNextTool in a run, counted modulo
                  \* SelectionsModulus

vars == <<configured, tools, clock, ctl, picksLeft, W, X, U, P, F, sel>>

(* The variables of the agent, and the others *)
agentVars == <<configured, tools, clock, ctl, picksLeft, W>>
nonAgentVars == <<X, U, P, F, sel>>

----------------------------------------------------------------------------
(* Bounds of the model *)

MaxCtl == 3          \* start/pause/resume/stop calls that take effect
MaxPicks == 1        \* selections that name a new tool of the catalog
MaxResumePicks == 2  \* the same, in the specification of pause and resume
MaxRunPicks == 3     \* the same, in the specification of one undisturbed run
MaxConfigDepth == 2  \* configure() is given maxDepth in 0..MaxConfigDepth

(* Program constants *)

DefaultMaxDepth == 10       \* createInitialState: maxDepth: 10
ConfidenceThreshold == 5    \* confidence < 0.5, in tenths

----------------------------------------------------------------------------
(* The tool catalogs of the model: A needs nothing, B and C have one       *)
(* required parameter x.  Z is a name no catalog has.                       *)

CatalogAB == <<"A", "B">>
CatalogABC == <<"A", "B", "C">>
AllNames == {"A", "B", "C", "Z"}
Params == {"x"}
Required(t) == IF t = "A" THEN {} ELSE {"x"}

NoTool == ""
NoTime == -1
NoResult == 0
ToolResults == {1}                  \* what a successful toolCall returns
TimeSet == 0                        \* startTime / endTime hold a Date.now()
Confidences == {4, 5, 6}            \* 0.4, 0.5, 0.6 in tenths

NoNode == <<"none", "", 0>>
ToolNodeId(name, now) == <<"tool", name, now>>
ResourceNodeId(field, value) == <<"resource", field, value>>

MsgNotConfigured == "Agent not configured. Call configure() first."
MsgAlreadyRunning == "Agent is already running"
MsgListTools == "listTools failed"
MsgLLM == "LLM API error"
MsgTool == "tool call failed"
ReasonUnresolved == <<"Could not resolve required parameters from available context", 0, 0>>
ReasonMaxDepth == "Maximum depth reached"
ReasonAllExecuted == "All tools have been executed"
ReasonNoSuitable == "No suitable tool found"
ReasonNoParams == "No parameters required"
ReasonLLM == "llm"

(* `Exceeds max depth (${toolDepth} > ${maxDepth})` *)
ExceedsReason(toolDepth, maxDepth) == <<"Exceeds max depth", toolDepth, maxDepth>>

Max(a, b) == IF a >= b THEN a ELSE b

SeqToSet(s) == {s[i] : i \in 1..Len(s)}

----------------------------------------------------------------------------
(* LLM replies *)

UndefExtraction == [missingParams |-> {}, sources |-> <<>>, confidence |-> -1]

(* sources: parameter -> the token before the first "." of its label, a   *)
(* tool of the catalog or a name that is none                               *)
SourceMaps(names) == UNION {[D -> names \cup {"Z"}] : D \in SUBSET Params}

(* What parseJSONResponse<ExtractedParams> can give the loop; a reply      *)
(* with missing fields is UndefExtraction.                                  *)
Extractions(names) ==
    {UndefExtraction} \cup
    [missingParams : SUBSET Params, sources : SourceMaps(names), confidence : Confidences]

(* extractParameters fallback on a reply that does not parse *)
ExtractFallback(t) == [missingParams |-> Required(t), sources |-> <<>>, confidence |-> 0]

BadJSON == "<not json>"
SelectReplies(names) == names \cup {NoTool, BadJSON}

(* A reply that is a JSON array: of one decision that names A, or empty.   *)
(* An array has no tool property.                                          *)
ArrayReplies == {"[A]", "[]"}
FirstOfArray(reply) == IF reply = "[A]" THEN "A" ELSE NoTool

----------------------------------------------------------------------------
(* ResourceGraph (llmClient.ts).  A graph is a record                      *)
(*   nodes       : node id -> [type, name, status, timestamp, result]      *)
(*   edges       : sequence of [source, target, relation, paramName]       *)
(*   toolResults : tool name -> flattened result                           *)

Put(f, k, v) == [x \in (DOMAIN f) \cup {k} |-> IF x = k THEN v ELSE f[x]]

EmptyGraph == [nodes |-> <<>>, edges |-> <<>>, toolResults |-> <<>>]

(* clear that leaves the side table of results as it is *)
clearKeepingResults(G) == [EmptyGraph EXCEPT !.toolResults = G.toolResults]

clear(G) == EmptyGraph

addPendingTool(G, toolName, now) ==
    [G EXCEPT !.nodes = Put(@, ToolNodeId(toolName, now),
        [type |-> "tool", name |-> toolName, status |-> "pending",
         timestamp |-> now, result |-> NoResult])]

markToolRunning(G, nodeId) ==
    IF nodeId \in DOMAIN G.nodes
    THEN [G EXCEPT !.nodes[nodeId].status = "running"]
    ELSE G

markToolFailed(G, nodeId) ==
    IF nodeId \in DOMAIN G.nodes
    THEN [G EXCEPT !.nodes[nodeId].status = "failed"]
    ELSE G

markToolSkipped(G, nodeId) ==
    IF nodeId \in DOMAIN G.nodes
    THEN [G EXCEPT !.nodes[nodeId].status = "skipped"]
    ELSE G

(* A JSON value is a record: kind ("leaf" for a number, "null", "object",   *)
(* "array"), the number of a leaf, and the entries [key, value] of an      *)
(* object or an array (the key of an array item is not read).  A key and   *)
(* a path are sequences of pieces, so that `${prefix}.${key}` is the       *)
(* concatenation the code makes.                                            *)
Leaf(n) == [kind |-> "leaf", leaf |-> n, items |-> <<>>]
NullValue == [kind |-> "null", leaf |-> 0, items |-> <<>>]
Obj(fields) == [kind |-> "object", leaf |-> 0, items |-> fields]
Arr(fields) == [kind |-> "array", leaf |-> 0, items |-> fields]

KeyId == <<"id">>
KeyA == <<"a">>
KeyB == <<"b">>
KeyADotId == <<"a", ".", "id">>

(* prefix ? `${prefix}.${key}` : key, line 455 *)
NewPrefix(prefix, key) == IF prefix # <<>> THEN prefix \o <<".">> \o key ELSE key

(* Object.assign(flat, more) *)
Assign(flat, more) ==
    [k \in DOMAIN flat \cup DOMAIN more |-> IF k \in DOMAIN more THEN more[k] ELSE flat[k]]

(* flattenResult, lines 416-465, on values without a content property.     *)
(* FlattenFields is the loop of lines 452-462 over the entries left.       *)
RECURSIVE flattenResult(_, _)
RECURSIVE FlattenFields(_, _, _)
FlattenFields(fields, prefix, flat) ==
    IF fields = <<>> THEN flat
    ELSE LET key == Head(fields).key
             value == Head(fields).value
             newPrefix == NewPrefix(prefix, key)
             flat1 == IF value.kind \in {"object", "array"}
                      THEN Assign(flat, flattenResult(value, newPrefix))
                      ELSE Put(Put(flat, key, value), newPrefix, value)
         IN FlattenFields(Tail(fields), prefix, flat1)

flattenResult(result, prefix) ==
    IF result.kind = "null" THEN <<>>
    ELSE IF result.kind = "array"
    THEN IF Len(result.items) > 0
         THEN Put(Assign(<<>>, flattenResult(result.items[1].value, prefix)),
                  prefix \o <<"_array">>, result)
         ELSE <<>>
    ELSE IF result.kind = "object" THEN FlattenFields(result.items, prefix, <<>>)
    ELSE <<>>

(* The payload {"id": result} of a tool call *)
ToolPayload(result) == Obj(<<[key |-> KeyId, value |-> Leaf(result)]>>)

(* The most recent tool node with that name, NoNode when there is none *)
getToolNodeId(G, toolName) ==
    LET cand == {id \in DOMAIN G.nodes :
                    G.nodes[id].type = "tool" /\ G.nodes[id].name = toolName}
    IN IF cand = {} THEN NoNode
       ELSE CHOOSE id \in cand :
                \A o \in cand : G.nodes[o].timestamp <= G.nodes[id].timestamp

(* extractResources that pushes the edge without creating the node *)
extractResourcesEdgeOnly(G, parentNodeId, result, now) ==
    [G EXCEPT !.edges = Append(@, [source |-> parentNodeId,
                                   target |-> ResourceNodeId("id", result),
                                   relation |-> "discovered", paramName |-> "id"])]

(* extractResources on the payload {"id": result}: one resource node       *)
(* resource_id_<result>, created once, and one "discovered" edge.          *)
extractResources(G, parentNodeId, result, now) ==
    LET rid == ResourceNodeId("id", result)
        ns  == IF rid \in DOMAIN G.nodes THEN G.nodes
               ELSE Put(G.nodes, rid,
                        [type |-> "resource", name |-> "id", status |-> "completed",
                         timestamp |-> now, result |-> result])
    IN [G EXCEPT !.nodes = ns,
                 !.edges = Append(@, [source |-> parentNodeId, target |-> rid,
                                      relation |-> "discovered", paramName |-> "id"])]

RECURSIVE ProvidedEdges(_, _, _, _)
ProvidedEdges(G, nodeId, paramSources, todo) ==
    IF todo = {} THEN <<>>
    ELSE LET p == CHOOSE q \in todo : TRUE
             rest == ProvidedEdges(G, nodeId, paramSources, todo \ {p})
         IN IF paramSources[p] \in DOMAIN G.nodes
            THEN <<[source |-> paramSources[p], target |-> nodeId,
                    relation |-> "provided", paramName |-> p]>> \o rest
            ELSE rest

recordToolExecution(G, nodeId, result, paramSources, now) ==
    IF nodeId \notin DOMAIN G.nodes THEN G
    ELSE LET G1 == [G EXCEPT !.nodes[nodeId].status = "completed",
                             !.nodes[nodeId].result = result,
                             !.toolResults = Put(@, G.nodes[nodeId].name,
                                                 flattenResult(ToolPayload(result), <<>>))]
             G2 == [G1 EXCEPT !.edges = @ \o ProvidedEdges(G1, nodeId, paramSources,
                                                          DOMAIN paramSources)]
         IN extractResources(G2, nodeId, result, now)

getAvailableContext(G) == G.toolResults

toVisualizationFormat(G) == [nodes |-> G.nodes, edges |-> G.edges]

----------------------------------------------------------------------------
(* ClaudeClient (claudeClient.ts) *)

Unexecuted(availableTools, executedTools) ==
    SelectSeq(availableTools, LAMBDA t : t \notin executedTools)

(* The two returns of selectNextTool that come before the LLM is asked;    *)
(* NoTool when neither applies and the prompt is sent.                      *)
SelectShortCircuit(availableTools, executedTools, currentDepth, maxDepth) ==
    IF currentDepth >= maxDepth THEN ReasonMaxDepth
    ELSE IF Len(Unexecuted(availableTools, executedTools)) = 0 THEN ReasonAllExecuted
    ELSE NoTool

(* What selectNextTool returns for an LLM reply: the parsed reply, or on   *)
(* a reply that does not parse the first unexecuted tool without required  *)
(* parameters.                                                              *)
SelectResult(reply, availableTools, executedTools) ==
    IF reply \in ArrayReplies THEN [tool |-> NoTool, reason |-> ""]
    ELSE IF reply # BadJSON THEN [tool |-> reply, reason |-> ReasonLLM]
    ELSE LET free == SelectSeq(Unexecuted(availableTools, executedTools),
                               LAMBDA t : Required(t) = {})
         IN IF Len(free) > 0 THEN [tool |-> free[1], reason |-> ReasonNoParams]
            ELSE [tool |-> NoTool, reason |-> ReasonNoSuitable]

(* selectNextTool of ClaudeClient, lines 76-118 *)
ClaudeSelectNextTool(availableTools, executedTools, availableContext, currentDepth, maxDepth, reply) ==
    LET sc == SelectShortCircuit(availableTools, executedTools, currentDepth, maxDepth)
    IN IF sc # NoTool THEN [tool |-> NoTool, reason |-> sc]
       ELSE SelectResult(reply, availableTools, executedTools)

----------------------------------------------------------------------------
(* GeminiClient (part_001) *)

ReasonFallbackNoParams == "Fallback: no parameters required"
ReasonFallbackContext == "Fallback: params likely available in context"
ReasonFallbackNone == "No suitable tool found in fallback"

(* JSON.stringify(data).includes(text), for a flattened result whose keys  *)
(* are made of the pieces of the model and whose values are numbers        *)
StringifiedIncludes(data, text) ==
    \E k \in DOMAIN data : \E i \in 1..Len(k) : k[i] = text

(* fallbackToolSelection, lines 153-193 *)
fallbackToolSelection(unexecutedTools, availableContext) ==
    LET free == SelectSeq(unexecutedTools, LAMBDA t : Required(t) = {})
        hasAllParams(t) ==
            \A param \in Required(t) :
                \E key \in DOMAIN availableContext :
                    \/ StringifiedIncludes(availableContext[key], param)
                    \/ StringifiedIncludes(availableContext[key], "cloudId")
                    \/ StringifiedIncludes(availableContext[key], "id")
        likely == SelectSeq(unexecutedTools, hasAllParams)
    IN IF Len(free) > 0 THEN [tool |-> free[1], reason |-> ReasonFallbackNoParams]
       ELSE IF Len(likely) > 0 THEN [tool |-> likely[1], reason |-> ReasonFallbackContext]
       ELSE [tool |-> NoTool, reason |-> ReasonFallbackNone]

(* What selectNextTool of GeminiClient returns for an LLM reply, lines     *)
(* 119-147                                                                  *)
GeminiSelectResult(reply, availableTools, executedTools, availableContext) ==
    LET unexecutedTools == Unexecuted(availableTools, executedTools)
    IN IF reply = BadJSON THEN fallbackToolSelection(unexecutedTools, availableContext)
       ELSE IF reply \in ArrayReplies
       THEN IF FirstOfArray(reply) # NoTool
            THEN [tool |-> FirstOfArray(reply), reason |-> ReasonLLM]
            ELSE fallbackToolSelection(unexecutedTools, availableContext)
       ELSE IF reply # NoTool THEN [tool |-> reply, reason |-> ReasonLLM]
       ELSE fallbackToolSelection(unexecutedTools, availableContext)

(* selectNextTool of GeminiClient, lines 81-148 *)
GeminiSelectNextTool(availableTools, executedTools, availableContext, currentDepth, maxDepth, reply) ==
    LET sc == SelectShortCircuit(availableTools, executedTools, currentDepth, maxDepth)
    IN IF sc # NoTool THEN [tool |-> NoTool, reason |-> sc]
       ELSE GeminiSelectResult(reply, availableTools, executedTools, availableContext)

----------------------------------------------------------------------------
(* AgentOrchestrator (agentOrchestrator.ts) *)

createInitialState ==
    [status |-> "idle", toolsDiscovered |-> <<>>, dependencyAnalysis |-> FALSE,
     executionHistory |-> <<>>, currentStep |-> 0, currentDepth |-> 0,
     maxDepth |-> DefaultMaxDepth, flaggedTools |-> <<>>,
     startTime |-> NoTime, endTime |-> NoTime, error |-> ""]

(* The locals of one activation of runExecutionLoop, suspended at pc.      *)
(* executedTools is an array without duplicates of which the code reads    *)
(* membership and length only: a set.  The locals declared in the loop     *)
(* body (nextTool, nodeId, paramSources, step) have a value while the      *)
(* iteration that declared them is suspended.                               *)
NoStep == 0
NoNextTool == [tool |-> NoTool, reason |-> ""]

NewLoop(via) ==
    [pc |-> "listTools", via |-> via, tools |-> <<>>, executedTools |-> {},
     toolDepths |-> <<>>,
     nextTool |-> NoNextTool, nodeId |-> NoNode, paramSources |-> <<>>,
     step |-> NoStep,
     called |-> {},      \* the tools this activation has invoked toolCallFn for
     unresolved |-> {}]  \* the tools it has flagged for unresolved parameters

(* The iteration is over: its block-scoped locals are gone *)
EndIteration(L) ==
    [L EXCEPT !.nextTool = NoNextTool, !.nodeId = NoNode, !.paramSources = <<>>,
              !.step = NoStep]

InitW ==
    [state |-> createInitialState,
     controller |-> "null", \* this.abortController: "null", "live" or "aborted"
     graph |-> EmptyGraph,
     events |-> <<>>,      \* what emitEvent has published since start() was last
                           \* accepted: [type, tool, status at the time]
     callLog |-> <<>>,     \* the tools toolCallFn was invoked with since then
     stopReason |-> "",    \* the reason of the last selection without a tool
     loops |-> <<>>,       \* the activations of runExecutionLoop that have
                           \* not returned
     thrown |-> ""]        \* the exception the last call or continuation raised

emitEvent(w, type, tool) ==
    [w EXCEPT !.events = Append(@, [type |-> type, tool |-> tool,
                                    status |-> w.state.status])]

RemoveAt(s, i) == [j \in 1..(Len(s) - 1) |-> IF j < i THEN s[j] ELSE s[j + 1]]

(* Lines 391-400: what follows the while loop.  reason is the reason of    *)
(* the selection that ended the loop ("" when the loop condition or the    *)
(* abort check ended it).                                                   *)
ExecutionComplete(w, l, reason, now) ==
    LET w1 == [w EXCEPT !.state.status = "completed",
                        !.state.endTime = now,
                        !.stopReason = IF reason # "" THEN reason ELSE @,
                        !.loops = RemoveAt(@, l)]
    IN emitEvent(w1, "agent_complete", NoTool)

(* Lines 225-241: the loop condition, the abort check and the call of      *)
(* selectNextTool up to its await.                                          *)
LoopHead(w, l, now) ==
    IF w.state.status # "running" THEN ExecutionComplete(w, l, "", now)
    ELSE IF w.controller = "aborted" THEN ExecutionComplete(w, l, "", now)
    ELSE LET sc == SelectShortCircuit(w.loops[l].tools, w.loops[l].executedTools,
                                      w.state.currentDepth, w.state.maxDepth)
         IN IF sc # NoTool
            THEN ExecutionComplete(w, l, sc, now)
            ELSE [w EXCEPT !.loops[l] = [EndIteration(@) EXCEPT !.pc = "select"]]

(* An exception leaves runExecutionLoop: start() catches it (lines         *)
(* 166-170), resume() lets it through to its caller.                        *)
LoopThrows(w, l, msg) ==
    LET w1 == [w EXCEPT !.loops = RemoveAt(@, l)]
    IN IF w.loops[l].via = "start"
       THEN emitEvent([w1 EXCEPT !.state.status = "error", !.state.error = msg],
                      "error", NoTool)
       ELSE [w1 EXCEPT !.thrown = msg]

(* Lines 209-214 *)
AfterListTools(w, l, catalog) ==
    [w EXCEPT !.state.toolsDiscovered = catalog,
              !.loops[l].tools = catalog,
              !.loops[l].pc = "analyze"]

(* Lines 213-223 and the first pass through the loop head *)
AfterAnalyze(w, l, now) ==
    LET w1 == [w EXCEPT !.state.dependencyAnalysis = TRUE]
    IN LoopHead(emitEvent(w1, "analysis_complete", NoTool), l, now)

(* Lines 242-273 *)
AfterSelect(w, l, reply, now) ==
    LET L  == w.loops[l]
        nt == SelectResult(reply, L.tools, L.executedTools)
        w1 == [w EXCEPT !.loops[l].nextTool = nt]
    IN IF nt.tool = NoTool THEN ExecutionComplete(w1, l, nt.reason, now)
       ELSE IF nt.tool \in L.executedTools THEN LoopHead(w1, l, now)
       ELSE LET w2 == [w1 EXCEPT !.loops[l].executedTools = @ \cup {nt.tool}]
            IN IF nt.tool \notin SeqToSet(L.tools) THEN LoopHead(w2, l, now)
               ELSE [w2 EXCEPT !.graph = addPendingTool(@, nt.tool, now),
                               !.loops[l].nodeId = ToolNodeId(nt.tool, now),
                               !.loops[l].pc = "extract"]

(* step.status = ..., step.result = ..., step.error = ...: the step is an  *)
(* element of the executionHistory of the state object it was pushed to.   *)
(* ref is its index there, NoStep when start() has replaced this.state     *)
(* since: the write is then to an object nobody can reach any more.        *)
SetStep(w, ref, status, result, error) ==
    IF ref # NoStep
    THEN [w EXCEPT !.state.executionHistory[ref].status = status,
                   !.state.executionHistory[ref].result = result,
                   !.state.executionHistory[ref].error = error]
    ELSE w

(* Lines 275-279: defaults for a partial extraction *)
Confidence(ext) == IF ext.confidence = -1 THEN 0 ELSE ext.confidence

(* The guard with <= for < *)
ConfidenceGuardInclusive(ext) ==
    ext.missingParams # {} /\ Confidence(ext) <= ConfidenceThreshold

(* Line 281 *)
ConfidenceGuard(ext) ==
    ext.missingParams # {} /\ Confidence(ext) < ConfidenceThreshold

(* Lines 302-317: 1 + the largest recorded depth of a source tool *)
DepthOf(toolDepths, t) == IF t \in DOMAIN toolDepths THEN toolDepths[t] ELSE 0

RECURSIVE MaxSourceDepth(_, _, _)
MaxSourceDepth(toolDepths, sources, todo) ==
    IF todo = {} THEN 0
    ELSE LET p == CHOOSE q \in todo : TRUE
         IN Max(DepthOf(toolDepths, sources[p]),
                MaxSourceDepth(toolDepths, sources, todo \ {p}))

ToolDepth(toolDepths, sources) ==
    MaxSourceDepth(toolDepths, sources, DOMAIN sources) + 1

(* Lines 305-310: parameter -> node id of its source tool, for the sources *)
(* that have a node                                                         *)
ParamSources(G, sources) ==
    [p \in {q \in DOMAIN sources : getToolNodeId(G, sources[q]) # NoNode}
        |-> getToolNodeId(G, sources[p])]

(* Lines 283-297 and 323-336 *)
FlagTool(w, l, toolName, missingParams, reason, nodeId) ==
    emitEvent([w EXCEPT !.state.flaggedTools =
                            Append(@, [toolName |-> toolName, missingParams |-> missingParams,
                                       reason |-> reason, nodeId |-> nodeId]),
                        !.graph = markToolSkipped(@, nodeId)],
              "tool_skipped", toolName)

(* Lines 275-365, up to the await of toolCallFn *)
AfterExtract(w, l, ext, now) ==
    LET L  == w.loops[l]
        t  == L.nextTool.tool
    IN IF ConfidenceGuard(ext)
       THEN LoopHead(FlagTool([w EXCEPT !.loops[l].unresolved = @ \cup {t}],
                              l, t, ext.missingParams, ReasonUnresolved, L.nodeId),
                     l, now)
       ELSE
        LET ps == ParamSources(w.graph, ext.sources)
            d  == ToolDepth(L.toolDepths, ext.sources)
            w2 == [w EXCEPT !.loops[l].paramSources = ps,
                            !.loops[l].toolDepths = Put(@, t, d)]
        IN IF d > w.state.maxDepth
           THEN LoopHead(FlagTool(w2, l, t, {}, ExceedsReason(d, w.state.maxDepth), L.nodeId),
                         l, now)
           ELSE
            LET step == [toolName |-> t, nodeId |-> L.nodeId, parameterSources |-> ps,
                         status |-> "running", result |-> NoResult, error |-> "",
                         depth |-> d]
                w3 == [w2 EXCEPT !.state.currentDepth = Max(@, d),
                                 !.state.executionHistory = Append(@, step),
                                 !.state.currentStep = Len(w.state.executionHistory),
                                 !.graph = markToolRunning(@, L.nodeId),
                                 !.loops[l].step = Len(w.state.executionHistory) + 1]
                w4 == emitEvent(w3, "tool_start", t)
            IN [w4 EXCEPT !.callLog = Append(@, t),
                          !.loops[l].called = @ \cup {t},
                          !.loops[l].pc = "toolCall"]

(* Lines 365-389, toolCallFn resolved *)
AfterToolCall(w, l, result, now) ==
    LET L  == w.loops[l]
        w1 == SetStep(w, L.step, "completed", result, "")
        w2 == [w1 EXCEPT !.graph = recordToolExecution(@, L.nodeId, result, L.paramSources, now)]
        w3 == emitEvent(w2, "tool_complete", L.nextTool.tool)
    IN LoopHead(w3, l, now)

(* A rejected toolCallFn that is let through to the caller of the loop *)
AfterToolThrowFatal(w, l, msg, now) == LoopThrows(w, l, msg)

(* Lines 376-389, toolCallFn rejected *)
AfterToolThrow(w, l, msg, now) ==
    LET L  == w.loops[l]
        w1 == SetStep(w, L.step, "failed", NoResult, msg)
        w2 == [w1 EXCEPT !.graph = markToolFailed(@, L.nodeId)]
        w3 == emitEvent(w2, "tool_failed", L.nextTool.tool)
    IN LoopHead(w3, l, now)

----------------------------------------------------------------------------
(* ResourceIndexer (server/src/analysis/resourceIndexer.ts) and the part   *)
(* of UserProfileManager (server/src/auth/userProfiles.ts) it reads.       *)
(*                                                                          *)
(* A string that takes part in a dedup key is a sequence of pieces, so     *)
(* that `${id}::${user}` is the concatenation the code makes.              *)

SelectionsModulus == 3  \* the selections of a run are counted modulo this
MaxFields == 2          \* entries of an object that is flattened
MaxGraphEdges == 3      \* edges of a graph that is called directly
MaxIndexCalls == 2      \* calls of indexResponse
MaxProxyMessages == 3   \* messages the proxy receives
MaxLeaves == 2       \* fields of the object a tool answers with

Uuid1 == <<"123e4567-e89b-42d3-a456-426614174000">>
Num777 == <<"777">>
Ari1 == <<"ari:cloud:jira", "::", "site/abc">>
AriHead == <<"ari:cloud:jira">>
Hello == <<"hello">>

NoUser == <<>>                      \* userProfileId null
Anonymous == <<"anonymous">>
UserP1 == <<"p1">>
UserP2 == <<"p2">>
UserTail == <<"site/abc", "::", "p1">>
UserArgs == {NoUser, UserP1, UserTail}
IndexTools == {"A"}

StringValues == {Uuid1, Ari1, AriHead}
NumberValues == {777}
Str(v) == [kind |-> "string", s |-> v, n |-> 0]
Num(n) == [kind |-> "number", s |-> <<>>, n |-> n]
LeafValues == {Str(v) : v \in StringValues} \cup {Num(n) : n \in NumberValues}
FieldNames == {"id", "name"}
Leaves == [fieldName : FieldNames, value : LeafValues]
Objects == UNION {[1..k -> Leaves] : k \in 0..MaxLeaves}

(* A tool response: the object itself, or the MCP form                     *)
(* {content: [{type: "text", text}]} whose text is the JSON of the object  *)
(* or is no JSON.                                                           *)
Responses ==
    [form : {"object"}, object : Objects, text : {<<>>}] \cup
    [form : {"mcp"}, object : {o \in Objects : Len(o) <= 1}, text : {<<>>}] \cup
    [form : {"mcpText"}, object : {<<>>}, text : {Hello, Uuid1}]

(* PATTERNS, lines 48-60, on the strings of the model *)
IsUuid(v) == v = Uuid1
IsAtlassianAri(v) == v = Ari1
IsAtlassianKey(v) == FALSE
IsNumeric(v) == v = Num777
IsPath(v) == FALSE
IsSlug(v) == FALSE

NoType == "null"

detectIdType(v) ==
    IF v = <<>> THEN NoType
    ELSE IF IsUuid(v) THEN "uuid"
    ELSE IF IsAtlassianAri(v) THEN "path"
    ELSE IF IsAtlassianKey(v) THEN "slug"
    ELSE IF IsNumeric(v) THEN "numeric"
    ELSE IF IsPath(v) THEN "path"
    ELSE IF IsSlug(v) THEN "slug"
    ELSE NoType

isIdFieldName(fieldName) == fieldName = "id"

(* String(obj) for the numbers of the model *)
NumberToString(n) == IF n = 777 THEN Num777 ELSE <<"5">>

(* extractIds on one leaf: lines 155-211 *)
ExtractLeaf(leaf) ==
    LET v == leaf.value
        found(id, type) == <<[id |-> id, type |-> type, fieldName |-> leaf.fieldName]>>
    IN IF v.kind = "string"
       THEN IF isIdFieldName(leaf.fieldName) /\ detectIdType(v.s) # NoType
            THEN found(v.s, detectIdType(v.s))
            ELSE IF (IsUuid(v.s) \/ IsAtlassianKey(v.s)) /\ detectIdType(v.s) # NoType
                 THEN found(v.s, detectIdType(v.s))
                 ELSE <<>>
       ELSE IF isIdFieldName(leaf.fieldName) /\ v.n > 100
            THEN found(NumberToString(v.n), "numeric")
            ELSE <<>>

(* extractIds on an object: lines 225-232, its entries in order *)
RECURSIVE extractIds(_)
extractIds(obj) ==
    IF obj = <<>> THEN <<>>
    ELSE ExtractLeaf(Head(obj)) \o extractIds(Tail(obj))

(* extractMcpContent, lines 356-396: the parsed text of the one text item, *)
(* or the response as it is; the response in MCP form is then the object   *)
(* {content: [{type: "text", text}]} with its two string leaves.           *)
extractMcpContent(response) ==
    IF response.form = "mcpText"
    THEN <<[fieldName |-> "type", value |-> Str(<<"text">>)],
           [fieldName |-> "text", value |-> Str(response.text)]>>
    ELSE response.object

(* `${id}::${userProfileId || "anonymous"}`, line 302 *)
OrAnonymous(userProfileId) == IF userProfileId = NoUser THEN Anonymous ELSE userProfileId

(* A key that leaves the user out *)
UniqueKeyOfId(id, user) == id

UniqueKey(id, user) == id \o <<"::">> \o user

(* UserProfileManager: the profiles and the active profile id *)
NoProfile == [id |-> NoUser, displayName |-> ""]
ProfileIds == {UserP1}              \* what randomUUID() gives addProfile
DisplayNames == {"alice"}

(* The file auth.json: the data of the last saveToFile that succeeded *)
NoProfilesFile == [exists |-> FALSE, profiles |-> <<>>, activeProfileId |-> NoUser]

InitU == [profiles |-> <<>>, activeProfileId |-> NoUser, file |-> NoProfilesFile]

(* saveToFile of UserProfileManager, lines 465-483; writeOk is whether     *)
(* writeFileSync succeeds                                                  *)
saveProfilesToFile(u, writeOk) ==
    IF writeOk
    THEN [u EXCEPT !.file = [exists |-> TRUE, profiles |-> u.profiles,
                             activeProfileId |-> u.activeProfileId]]
    ELSE u

(* getProfile, lines 331-333 *)
getProfile(u, id) ==
    IF \E i \in 1..Len(u.profiles) : u.profiles[i].id = id
    THEN u.profiles[CHOOSE i \in 1..Len(u.profiles) :
                       /\ u.profiles[i].id = id
                       /\ \A j \in 1..(i - 1) : u.profiles[j].id # id]
    ELSE NoProfile

(* addProfile, lines 288-303 *)
addProfile(u, id, displayName, writeOk) ==
    saveProfilesToFile(
        [u EXCEPT !.profiles = Append(@, [id |-> id, displayName |-> displayName])],
        writeOk)

(* findIndex, 0 for -1 *)
ProfileIndex(u, id) ==
    IF \E i \in 1..Len(u.profiles) : u.profiles[i].id = id
    THEN CHOOSE i \in 1..Len(u.profiles) :
            /\ u.profiles[i].id = id
            /\ \A j \in 1..(i - 1) : u.profiles[j].id # id
    ELSE 0

MsgProfileNotFound == "Profile not found"

(* What updateProfile and setActiveProfile throw, "" when they return *)
ProfileRejection(u, id) == IF ProfileIndex(u, id) = 0 THEN MsgProfileNotFound ELSE ""

(* {...existing, ...data, id: existing.id}, lines 315-321 *)
MergeProfile(existing, data) ==
    [k \in DOMAIN existing \cup DOMAIN data |->
        IF k = "id" THEN existing.id
        ELSE IF k \in DOMAIN data THEN data[k] ELSE existing[k]]

(* updateProfile, lines 308-326 *)
updateProfile(u, id, data, writeOk) ==
    LET index == ProfileIndex(u, id)
    IN IF index = 0 THEN u
       ELSE saveProfilesToFile(
                [u EXCEPT !.profiles[index] = MergeProfile(u.profiles[index], data)],
                writeOk)

(* deleteProfile that leaves the active profile id as it is *)
deleteProfileKeepingActive(u, id, writeOk) ==
    LET index == ProfileIndex(u, id)
    IN IF index = 0 THEN u
       ELSE saveProfilesToFile([u EXCEPT !.profiles = RemoveAt(@, index)], writeOk)

(* deleteProfile, lines 345-360 *)
deleteProfile(u, id, writeOk) ==
    LET index == ProfileIndex(u, id)
    IN IF index = 0 THEN u
       ELSE saveProfilesToFile(
                [u EXCEPT !.profiles = RemoveAt(@, index),
                          !.activeProfileId = IF @ = id THEN NoUser ELSE @],
                writeOk)

(* setActiveProfile, lines 365-375 *)
setActiveProfile(u, id, writeOk) ==
    IF getProfile(u, id) = NoProfile THEN u
    ELSE saveProfilesToFile([u EXCEPT !.activeProfileId = id], writeOk)

(* clearActiveProfile, lines 380-384 *)
clearActiveProfile(u, writeOk) ==
    saveProfilesToFile([u EXCEPT !.activeProfileId = NoUser], writeOk)

(* The indexer: its list, its dedup set, the file resources.json (NoFile   *)
(* when there is none), the next randomUUID(), what the last indexResponse *)
(* returned, and how many times indexResponse was called.  last is the     *)
(* userProfileId and the extracted identifiers of the call of              *)
(* indexResponse that was the last thing to happen to this indexer; loaded *)
(* is whether this indexer read its list from the file; write is what      *)
(* became of writeFileSync in the last operation: "ok", "failed", or       *)
(* "none" when the operation did not call saveToFile.                      *)
NoFile == [exists |-> FALSE, text |-> <<>>]
NoCall == [called |-> FALSE, userProfileId |-> NoUser, extracted |-> <<>>]

InitX == [resources |-> <<>>, seenIds |-> {}, file |-> NoFile, nextEntry |-> 1,
          returned |-> <<>>, calls |-> 0, last |-> NoCall, loaded |-> FALSE,
          write |-> "none"]

(* JSON.stringify of {resources}: each entry as its properties in order,   *)
(* a property the object does not have (undefined) left out                 *)
EntryKeys == <<"entryId", "id", "type", "fieldName", "discoveredByTool",
               "discoveredFromUser", "discoveredFromUserName">>

RECURSIVE StringifyObject(_, _)
StringifyObject(obj, keys) ==
    IF keys = <<>> THEN <<>>
    ELSE (IF Head(keys) \in DOMAIN obj
          THEN <<[key |-> Head(keys), value |-> obj[Head(keys)]]>>
          ELSE <<>>) \o StringifyObject(obj, Tail(keys))

JSONStringify(resources) ==
    [i \in 1..Len(resources) |-> StringifyObject(resources[i], EntryKeys)]

(* JSON.parse: the object that has the properties of the text *)
ParseObject(text) ==
    [k \in {text[i].key : i \in 1..Len(text)} |->
        text[CHOOSE i \in 1..Len(text) : text[i].key = k].value]

JSONParse(text) == [i \in 1..Len(text) |-> ParseObject(text[i])]

(* saveToFile that empties the list in memory when the write fails *)
saveToFileOrForget(x, writeOk) ==
    IF writeOk
    THEN [x EXCEPT !.file = [exists |-> TRUE, text |-> JSONStringify(x.resources)],
                   !.write = "ok"]
    ELSE [x EXCEPT !.resources = <<>>, !.seenIds = {}, !.write = "failed"]

(* saveToFile, lines 442-457; writeOk is whether writeFileSync succeeds *)
saveToFile(x, writeOk) ==
    IF writeOk
    THEN [x EXCEPT !.file = [exists |-> TRUE, text |-> JSONStringify(x.resources)],
                   !.write = "ok"]
    ELSE [x EXCEPT !.write = "failed"]

(* The loop of indexResponse, lines 300-324: x with the new entries, and   *)
(* the new entries                                                          *)
RECURSIVE IndexExtracted(_, _, _, _, _)
IndexExtracted(x, extracted, userProfileId, userName, toolName) ==
    IF extracted = <<>> THEN [x |-> x, newResources |-> <<>>]
    ELSE LET e == Head(extracted)
             uniqueKey == UniqueKey(e.id, OrAnonymous(userProfileId))
         IN IF uniqueKey \in x.seenIds
            THEN IndexExtracted(x, Tail(extracted), userProfileId, userName, toolName)
            ELSE LET resource == [entryId |-> x.nextEntry,
                                  id |-> e.id,
                                  type |-> e.type,
                                  fieldName |-> e.fieldName,
                                  discoveredByTool |-> toolName,
                                  discoveredFromUser |-> OrAnonymous(userProfileId),
                                  discoveredFromUserName |-> userName]
                     x1 == [x EXCEPT !.seenIds = @ \cup {uniqueKey},
                                     !.resources = Append(@, resource),
                                     !.nextEntry = @ + 1]
                     rest == IndexExtracted(x1, Tail(extracted), userProfileId,
                                            userName, toolName)
                 IN [x |-> rest.x, newResources |-> <<resource>> \o rest.newResources]

(* indexResponse that returns its whole list *)
indexResponseReturningAll(x, u, userProfileId, toolName, response, writeOk) ==
    LET extracted == extractIds(extractMcpContent(response))
        r == IndexExtracted(x, extracted, userProfileId, "Unknown", toolName)
        x1 == IF r.newResources # <<>> THEN saveToFile(r.x, writeOk)
              ELSE [r.x EXCEPT !.write = "none"]
    IN [x1 EXCEPT !.returned = x1.resources,
                  !.last = [called |-> TRUE, userProfileId |-> userProfileId,
                            extracted |-> extracted]]

(* indexResponse, lines 275-335 *)
indexResponse(x, u, userProfileId, toolName, response, writeOk) ==
    LET profile == IF userProfileId # NoUser THEN getProfile(u, userProfileId) ELSE NoProfile
        userName == IF profile.displayName # "" THEN profile.displayName ELSE "Unknown"
        extracted == extractIds(extractMcpContent(response))
        r == IndexExtracted(x, extracted, userProfileId, userName, toolName)
        x1 == IF r.newResources # <<>> THEN saveToFile(r.x, writeOk)
              ELSE [r.x EXCEPT !.write = "none"]
    IN [x1 EXCEPT !.returned = r.newResources,
                  !.last = [called |-> TRUE, userProfileId |-> userProfileId,
                            extracted |-> extracted]]

(* clearIndex that saves the list before it empties it *)
clearIndexSavingFirst(x, writeOk) ==
    [saveToFile(x, writeOk) EXCEPT !.resources = <<>>, !.seenIds = {}]

(* clearIndex, lines 401-406 *)
clearIndex(x, writeOk) ==
    saveToFile([x EXCEPT !.resources = <<>>, !.seenIds = {}], writeOk)

(* loadFromFile that does not rebuild the dedup set *)
loadFromFileWithoutSeenIds(x) ==
    IF ~x.file.exists
    THEN [x EXCEPT !.resources = <<>>, !.seenIds = {}, !.returned = <<>>,
                   !.last = NoCall, !.loaded = FALSE, !.write = "none"]
    ELSE [x EXCEPT !.resources = JSONParse(x.file.text), !.seenIds = {},
                   !.returned = <<>>, !.last = NoCall, !.loaded = TRUE, !.write = "none"]

(* new ResourceIndexer(): the constructor and loadFromFile, lines 268-270  *)
(* and 411-437, on the file x has written                                   *)
loadFromFile(x) ==
    IF ~x.file.exists
    THEN [x EXCEPT !.resources = <<>>, !.seenIds = {}, !.returned = <<>>,
                   !.last = NoCall, !.loaded = FALSE, !.write = "none"]
    ELSE LET parsed == JSONParse(x.file.text)
         IN [x EXCEPT !.resources = parsed,
                      !.seenIds = {UniqueKey(parsed[i].id, parsed[i].discoveredFromUser) :
                                      i \in 1..Len(parsed)},
                      !.returned = <<>>, !.last = NoCall, !.loaded = TRUE,
                      !.write = "none"]

(* The proxy of mcpProxy.ts between a client transport and a server       *)
(* transport.  A JSON-RPC message is a record: kind, id (0 when it has     *)
(* none), method and params.name (both "" when absent), outcome ("result", *)
(* "error" or "" for what is no response), the error's code and message,   *)
(* and the result a response carries.                                       *)
RequestIds == {1, 2}
NoId == 0
EmptyResult == [form |-> "object", object |-> <<>>, text |-> <<>>]
ServerResults == {EmptyResult,
                  [form |-> "object",
                   object |-> <<[fieldName |-> "id", value |-> Str(Uuid1)]>>,
                   text |-> <<>>]}
SendErrors == {"ECONNRESET"}
ServerErrorCode == -32000

Message(kind, id, method, name, outcome, code, message, result) ==
    [kind |-> kind, id |-> id, method |-> method, name |-> name, outcome |-> outcome,
     code |-> code, message |-> message, result |-> result]

ClientMessages ==
    {Message("request", id, "tools/call", name, "", 0, "", EmptyResult) :
        id \in RequestIds, name \in {"A", ""}} \cup
    {Message("request", id, "ping", "", "", 0, "", EmptyResult) : id \in RequestIds} \cup
    {Message("notification", NoId, "notifications/initialized", "", "", 0, "", EmptyResult)} \cup
    {Message("response", 1, "", "", "result", 0, "", EmptyResult)}

ServerMessages ==
    {Message("response", id, "", "", "result", 0, "", result) :
        id \in RequestIds, result \in ServerResults} \cup
    {Message("response", id, "", "", "error", ServerErrorCode, "failed", EmptyResult) :
        id \in RequestIds} \cup
    {Message("request", 1, "ping", "", "", 0, "", EmptyResult)} \cup
    {Message("notification", NoId, "notifications/message", "", "", 0, "", EmptyResult)}

(* isJSONRPCRequest *)
isJSONRPCRequest(message) == message.kind = "request"

(* isJSONRPCResponse(message) && "result" in message, line 105 *)
IsResultResponse(message) == message.kind = "response" /\ message.outcome = "result"

(* The error response of lines 67-75 *)
SynthesizedErrorCode == -32001
errorResponse(message, error) ==
    Message("response", message.id, "", "", "error", SynthesizedErrorCode, error, EmptyResult)

(* pendingRequests.set, .delete and .clear on a function whose domain is   *)
(* the set of keys                                                          *)
NoPending == [k \in {} |-> [method |-> "", toolName |-> ""]]
MapSet(map, key, value) ==
    [k \in DOMAIN map \cup {key} |-> IF k = key THEN value ELSE map[k]]
MapDelete(map, key) == [k \in DOMAIN map \ {key} |-> map[k]]

(* The proxy: the closure's variables of lines 31-40, the state of the two *)
(* transports ("open", "closing" once close() was called on it, "closed"   *)
(* once its close event has fired), the sends to the server whose promise  *)
(* is not settled, what was sent on the client transport and the state     *)
(* that transport was in, the calls of close() on each transport, the      *)
(* number of messages received, the messages that arrived from the        *)
(* server, each with whether indexResponse threw on it, and for each       *)
(* request id the profile that was active when the last request with that  *)
(* id arrived from the client.                                             *)
InitP == [transportToClientClosed |-> FALSE,
          transportToServerClosed |-> FALSE,
          pendingRequests |-> NoPending,
          client |-> "open",
          server |-> "open",
          sending |-> <<>>,
          toClient |-> <<>>,
          closeCalls |-> [client |-> 0, server |-> 0],
          received |-> 0,
          fromServer |-> <<>>,
          askedAs |-> [k \in {} |-> NoUser]]

(* transportToClient.send(message), lines 76 and 138 *)
SendToClient(p, message, synthesized) ==
    [p EXCEPT !.toClient = Append(@, [message |-> message, synthesized |-> synthesized,
                                      transport |-> p.client])]

(* transportToClient.onmessage up to the call of send, lines 42-64 *)
onClientMessage(p, message) ==
    LET toolName == IF message.method = "tools/call" /\ message.name # ""
                    THEN message.name ELSE ""
        p1 == IF isJSONRPCRequest(message)
              THEN [p EXCEPT !.pendingRequests =
                        MapSet(@, message.id, [method |-> message.method,
                                               toolName |-> toolName])]
              ELSE p
    IN [p1 EXCEPT !.sending = Append(@, message)]

(* The catch of lines 64-78, for the send at position i that rejected *)
onSendRejected(p, i, error) ==
    LET message == p.sending[i]
        p1 == [p EXCEPT !.sending = RemoveAt(@, i)]
    IN IF isJSONRPCRequest(message) /\ ~p.transportToClientClosed
       THEN SendToClient(p1, errorResponse(message, error), TRUE)
       ELSE p1

(* Whether transportToServer.onmessage indexes the message, lines 105-115 *)
IndexesMessage(p, message) ==
    /\ IsResultResponse(message)
    /\ message.id \in DOMAIN p.pendingRequests
    /\ p.pendingRequests[message.id].method = "tools/call"
    /\ p.pendingRequests[message.id].toolName # ""

(* transportToServer.onmessage whose call of indexResponse is not inside  *)
(* try: an exception of indexResponse leaves the handler before the send   *)
onServerMessageWithoutTry(p, message, indexThrows) ==
    LET p1 == IF IsResultResponse(message) /\ message.id \in DOMAIN p.pendingRequests
              THEN [p EXCEPT !.pendingRequests = MapDelete(@, message.id)]
              ELSE p
    IN IF IndexesMessage(p, message) /\ indexThrows THEN p1
       ELSE SendToClient(p1, message, FALSE)

(* transportToServer.onmessage on the proxy's own state, lines 81-139;     *)
(* indexThrows is whether indexResponse throws, which the catch of lines   *)
(* 132-134 swallows                                                        *)
onServerMessage(p, message, indexThrows) ==
    LET p1 == IF IsResultResponse(message) /\ message.id \in DOMAIN p.pendingRequests
              THEN [p EXCEPT !.pendingRequests = MapDelete(@, message.id)]
              ELSE p
    IN SendToClient(p1, message, FALSE)

(* getActiveProfileId that gives the profile the store got first *)
getOldestProfileId(u) == IF u.profiles = <<>> THEN NoUser ELSE u.profiles[1].id

(* getActiveProfileId, part_001 lines 399-401 *)
getActiveProfileId(u) == u.activeProfileId

(* transportToClient.onclose, lines 141-149 *)
onClientClose(p) ==
    IF p.transportToServerClosed THEN p
    ELSE [p EXCEPT !.transportToClientClosed = TRUE,
                   !.pendingRequests = NoPending,
                   !.server = IF @ = "open" THEN "closing" ELSE @,
                   !.closeCalls.server = @ + 1]

(* transportToServer.onclose without its first test *)
onServerCloseUnguarded(p) ==
    [p EXCEPT !.transportToServerClosed = TRUE,
              !.pendingRequests = NoPending,
              !.client = IF @ = "open" THEN "closing" ELSE @,
              !.closeCalls.client = @ + 1]

(* transportToServer.onclose, lines 151-158 *)
onServerClose(p) ==
    IF p.transportToClientClosed THEN p
    ELSE [p EXCEPT !.transportToServerClosed = TRUE,
                   !.pendingRequests = NoPending,
                   !.client = IF @ = "open" THEN "closing" ELSE @,
                   !.closeCalls.client = @ + 1]

(* No function is applied on its own *)
NoApplication == [fn |-> "none"]

NonAgentInit ==
    /\ X = InitX
    /\ U = InitU
    /\ P = InitP
    /\ F = NoApplication
    /\ sel = 0

----------------------------------------------------------------------------
(* The state machine *)

Init ==
    /\ configured = FALSE
    /\ tools = CatalogAB
    /\ clock = [t \in AllNames |-> 0]
    /\ ctl = 0
    /\ picksLeft = MaxPicks
    /\ W = InitW
    /\ NonAgentInit

Quiet == [W EXCEPT !.thrown = ""]

(* Date.now() as addPendingTool(t) reads it: the value it read for t the   *)
(* last time (no millisecond has passed) or a later one.  Timestamps are    *)
(* compared between nodes of the same name only.                            *)
Now(last) == IF last = 0 THEN {1} ELSE {last, last + 1}

(* configure(): lines 108-132; m = 0 stands for no maxDepth given *)
Configure(m) ==
    /\ configured' = TRUE
    /\ W' = IF m # 0 THEN [Quiet EXCEPT !.state.maxDepth = m] ELSE Quiet
    /\ UNCHANGED <<tools, clock, ctl, picksLeft>>
    /\ UNCHANGED nonAgentVars

(* start() that does not look at the status *)
StartRejectionUnguarded(isConfigured, status) ==
    IF ~isConfigured THEN MsgNotConfigured ELSE ""

(* The two guards of start(), lines 148-154: the message thrown, "" when   *)
(* start() goes ahead                                                       *)
StartRejection(isConfigured, status) ==
    IF ~isConfigured THEN MsgNotConfigured
    ELSE IF status = "running" THEN MsgAlreadyRunning
    ELSE ""

(* Lines 156-165: start() accepted, up to the await of listToolsFn *)
(* The activations still suspended keep their step objects, which are now  *)
(* steps of the state object start() has dropped.                           *)
StartAccepted(w, now) ==
    LET w1 == [w EXCEPT !.controller = "live",
                        !.state = [createInitialState EXCEPT !.status = "running",
                                                             !.startTime = now],
                        !.graph = clear(@),
                        !.events = <<>>,
                        !.callLog = <<>>,
                        !.stopReason = "",
                        !.loops = [i \in DOMAIN w.loops |->
                                      [w.loops[i] EXCEPT !.step = NoStep]]]
        w2 == emitEvent(w1, "status_change", NoTool)
    IN [w2 EXCEPT !.loops = Append(@, NewLoop("start"))]

Start ==
    LET rej == StartRejection(configured, W.state.status)
    IN /\ rej = "" => ctl < MaxCtl
       /\ W' = IF rej # "" THEN [Quiet EXCEPT !.thrown = rej]
               ELSE StartAccepted(Quiet, TimeSet)
       /\ ctl' = IF rej # "" THEN ctl ELSE ctl + 1
       /\ clock' = IF rej = "" /\ W.loops = <<>> THEN [t \in AllNames |-> 0] ELSE clock
       /\ UNCHANGED <<configured, tools, picksLeft>>
       /\ UNCHANGED nonAgentVars

(* pause(): lines 176-181 *)
pause(w) ==
    IF w.state.status = "running"
    THEN emitEvent([w EXCEPT !.state.status = "paused"], "status_change", NoTool)
    ELSE w

Pause ==
    /\ W.state.status = "running" => ctl < MaxCtl
    /\ W' = pause(Quiet)
    /\ ctl' = IF W.state.status = "running" THEN ctl + 1 ELSE ctl
    /\ UNCHANGED <<configured, tools, clock, picksLeft>>
    /\ UNCHANGED nonAgentVars

(* resume() that does not look at the status *)
resumeUnguarded(w) ==
    LET w1 == emitEvent([w EXCEPT !.state.status = "running"], "status_change", NoTool)
    IN [w1 EXCEPT !.loops = Append(@, NewLoop("resume"))]

(* resume(): lines 186-192, up to the await of listToolsFn *)
resume(w) ==
    IF w.state.status = "paused"
    THEN LET w1 == emitEvent([w EXCEPT !.state.status = "running"],
                             "status_change", NoTool)
         IN [w1 EXCEPT !.loops = Append(@, NewLoop("resume"))]
    ELSE w

Resume ==
    /\ W.state.status = "paused" => ctl < MaxCtl
    /\ W' = resume(Quiet)
    /\ ctl' = IF W.state.status = "paused" THEN ctl + 1 ELSE ctl
    /\ UNCHANGED <<configured, tools, clock, picksLeft>>
    /\ UNCHANGED nonAgentVars

(* stop(): lines 197-202 *)
Stop ==
    /\ ctl < MaxCtl
    /\ W' = emitEvent([Quiet EXCEPT !.controller = IF @ = "null" THEN @ ELSE "aborted",
                                    !.state.status = "idle",
                                    !.state.endTime = TimeSet],
                      "status_change", NoTool)
    /\ ctl' = ctl + 1
    /\ UNCHANGED <<configured, tools, clock, picksLeft>>
    /\ UNCHANGED nonAgentVars

(* The continuations of runExecutionLoop, one per await *)

ListToolsReturn(l) ==
    /\ W.loops[l].pc = "listTools"
    /\ W' = AfterListTools(Quiet, l, tools)
    /\ UNCHANGED <<configured, tools, clock, ctl, picksLeft>>
    /\ UNCHANGED nonAgentVars

ListToolsThrows(l) ==
    /\ W.loops[l].pc = "listTools"
    /\ W' = LoopThrows(Quiet, l, MsgListTools)
    /\ UNCHANGED <<configured, tools, clock, ctl, picksLeft>>
    /\ UNCHANGED nonAgentVars

AnalyzeReturn(l) ==
    /\ W.loops[l].pc = "analyze"
    /\ W' = AfterAnalyze(Quiet, l, TimeSet)
    /\ UNCHANGED <<configured, tools, clock, ctl, picksLeft>>
    /\ UNCHANGED nonAgentVars

SelectStep(l, replies, counting) ==
    /\ W.loops[l].pc = "select"
    /\ \E reply \in replies :
          LET t == SelectResult(reply, W.loops[l].tools, W.loops[l].executedTools).tool
          IN \E now \in (IF t \in DOMAIN clock THEN Now(clock[t]) ELSE {0}) :
                LET picked == Len(W'.loops) = Len(W.loops) /\ W'.loops[l].pc = "extract"
                IN /\ W' = AfterSelect(Quiet, l, reply, now)
                   /\ picked => picksLeft > 0
                   /\ picksLeft' = IF picked THEN picksLeft - 1 ELSE picksLeft
                   /\ clock' = IF picked THEN [clock EXCEPT ![t] = now] ELSE clock
    /\ UNCHANGED <<configured, tools, ctl>>
    /\ sel' = IF counting THEN (sel + 1) % SelectionsModulus ELSE sel
    /\ UNCHANGED <<X, U, P, F>>

(* The LLM names a tool of the catalog or none, or its reply is no JSON *)
SelectReturn(l) == SelectStep(l, SelectReplies(SeqToSet(W.loops[l].tools)), FALSE)

(* The same, and the LLM may name a tool the catalog does not have *)
SelectReturnAny(l) ==
    SelectStep(l, SelectReplies(SeqToSet(W.loops[l].tools)) \cup {"Z"}, FALSE)

(* The same, in a run whose selections are counted *)
SelectReturnCounted(l) ==
    SelectStep(l, SelectReplies(SeqToSet(W.loops[l].tools)) \cup {"Z"}, TRUE)

ExtractReturn(l) ==
    /\ W.loops[l].pc = "extract"
    /\ \E ext \in Extractions(SeqToSet(W.loops[l].tools))
                    \cup {ExtractFallback(W.loops[l].nextTool.tool)} :
          W' = AfterExtract(Quiet, l, ext, TimeSet)
    /\ UNCHANGED <<configured, tools, clock, ctl, picksLeft>>
    /\ UNCHANGED nonAgentVars

(* callClaude throws on a non-2xx reply, outside the try of its caller *)
LLMThrows(l) ==
    /\ W.loops[l].pc \in {"analyze", "select", "extract"}
    /\ W' = LoopThrows(Quiet, l, MsgLLM)
    /\ UNCHANGED <<configured, tools, clock, ctl, picksLeft>>
    /\ UNCHANGED nonAgentVars

ToolReturn(l) ==
    /\ W.loops[l].pc = "toolCall"
    /\ \E result \in ToolResults : W' = AfterToolCall(Quiet, l, result, TimeSet)
    /\ UNCHANGED <<configured, tools, clock, ctl, picksLeft>>
    /\ UNCHANGED nonAgentVars

ToolThrows(l) ==
    /\ W.loops[l].pc = "toolCall"
    /\ W' = AfterToolThrow(Quiet, l, MsgTool, TimeSet)
    /\ UNCHANGED <<configured, tools, clock, ctl, picksLeft>>
    /\ UNCHANGED nonAgentVars

Next ==
    \/ \E m \in {0, MaxConfigDepth} : Configure(m)
    \/ Start
    \/ Pause
    \/ Resume
    \/ Stop
    \/ \E l \in DOMAIN W.loops : ListToolsReturn(l)
    \/ \E l \in DOMAIN W.loops : ListToolsThrows(l)
    \/ \E l \in DOMAIN W.loops : AnalyzeReturn(l)
    \/ \E l \in DOMAIN W.loops : SelectReturn(l)
    \/ \E l \in DOMAIN W.loops : ExtractReturn(l)
    \/ \E l \in DOMAIN W.loops : LLMThrows(l)
    \/ \E l \in DOMAIN W.loops : ToolReturn(l)
    \/ \E l \in DOMAIN W.loops : ToolThrows(l)

Spec == Init /\ [][Next]_vars

(* The agent with every call of pause() and resume() on record: F is the   *)
(* last of these calls and the status it found.                            *)
PauseCalled ==
    /\ W.state.status = "running" => ctl < MaxCtl
    /\ W' = pause(Quiet)
    /\ ctl' = IF W.state.status = "running" THEN ctl + 1 ELSE ctl
    /\ F' = [fn |-> "pause", status |-> W.state.status]
    /\ UNCHANGED <<configured, tools, clock, picksLeft, X, U, P, sel>>

ResumeCalled ==
    /\ W.state.status = "paused" => ctl < MaxCtl
    /\ W' = resume(Quiet)
    /\ ctl' = IF W.state.status = "paused" THEN ctl + 1 ELSE ctl
    /\ F' = [fn |-> "resume", status |-> W.state.status]
    /\ UNCHANGED <<configured, tools, clock, picksLeft, X, U, P, sel>>

NextControl ==
    \/ \E m \in {0, MaxConfigDepth} : Configure(m)
    \/ Start
    \/ PauseCalled
    \/ ResumeCalled
    \/ Stop
    \/ \E l \in DOMAIN W.loops : ListToolsReturn(l)
    \/ \E l \in DOMAIN W.loops : ListToolsThrows(l)
    \/ \E l \in DOMAIN W.loops : AnalyzeReturn(l)
    \/ \E l \in DOMAIN W.loops : SelectReturn(l)
    \/ \E l \in DOMAIN W.loops : ExtractReturn(l)
    \/ \E l \in DOMAIN W.loops : LLMThrows(l)
    \/ \E l \in DOMAIN W.loops : ToolReturn(l)
    \/ \E l \in DOMAIN W.loops : ToolThrows(l)

SpecControl == Init /\ [][NextControl]_vars

(* One run that no pause(), resume() or stop() disturbs, on the catalog    *)
(* A, B, C                                                                  *)
InitRun ==
    /\ configured = FALSE
    /\ tools = CatalogABC
    /\ clock = [t \in AllNames |-> 0]
    /\ ctl = MaxCtl - 1
    /\ picksLeft = MaxRunPicks
    /\ W = InitW
    /\ NonAgentInit

NextRun ==
    \/ \E m \in 0..MaxConfigDepth : Configure(m)
    \/ Start
    \/ \E l \in DOMAIN W.loops : ListToolsReturn(l)
    \/ \E l \in DOMAIN W.loops : ListToolsThrows(l)
    \/ \E l \in DOMAIN W.loops : AnalyzeReturn(l)
    \/ \E l \in DOMAIN W.loops : SelectReturnAny(l)
    \/ \E l \in DOMAIN W.loops : ExtractReturn(l)
    \/ \E l \in DOMAIN W.loops : LLMThrows(l)
    \/ \E l \in DOMAIN W.loops : ToolReturn(l)
    \/ \E l \in DOMAIN W.loops : ToolThrows(l)

SpecRun == InitRun /\ [][NextRun]_vars

(* One run of a configured orchestrator whose listTools, LLM and tool      *)
(* calls all return, and that no control operation disturbs                *)
InitLive ==
    /\ configured = TRUE
    /\ tools = CatalogAB
    /\ clock = [t \in AllNames |-> 0]
    /\ ctl = MaxCtl - 1
    /\ picksLeft = MaxResumePicks
    /\ W = InitW
    /\ NonAgentInit

NextLive ==
    \/ (W.state.status # "running" /\ Start)
    \/ \E l \in DOMAIN W.loops : ListToolsReturn(l)
    \/ \E l \in DOMAIN W.loops : AnalyzeReturn(l)
    \/ \E l \in DOMAIN W.loops : SelectReturnCounted(l)
    \/ \E l \in DOMAIN W.loops : ExtractReturn(l)
    \/ \E l \in DOMAIN W.loops : ToolReturn(l)
    \/ \E l \in DOMAIN W.loops : ToolThrows(l)

(* Every pending call returns: the step that is its return is taken *)
SpecLive == InitLive /\ [][NextLive]_vars /\ WF_vars(NextLive)

(* A configured orchestrator that is started, paused, resumed and stopped  *)
(* while its calls are pending, and may execute two tools                  *)
InitResume ==
    /\ configured = TRUE
    /\ tools = CatalogAB
    /\ clock = [t \in AllNames |-> 0]
    /\ ctl = 0
    /\ picksLeft = MaxResumePicks
    /\ W = InitW
    /\ NonAgentInit

NextResume ==
    \/ Start
    \/ Pause
    \/ Resume
    \/ Stop
    \/ \E l \in DOMAIN W.loops : ListToolsReturn(l)
    \/ \E l \in DOMAIN W.loops : AnalyzeReturn(l)
    \/ \E l \in DOMAIN W.loops : SelectReturn(l)
    \/ \E l \in DOMAIN W.loops : ExtractReturn(l)
    \/ \E l \in DOMAIN W.loops : ToolReturn(l)
    \/ \E l \in DOMAIN W.loops : ToolThrows(l)

SpecResume == InitResume /\ [][NextResume]_vars

(* flattenResult applied to a JSON value *)

InnerKeys == {KeyId, KeyA}
TopKeys == {KeyId, KeyA, KeyB, KeyADotId}
LeafNumbers == {1, 2}

(* The objects of at most MaxFields entries with different keys *)
ObjectsOf(keys, values) ==
    {Obj(fields) : fields \in
        {f \in UNION {[1..k -> [key : keys, value : values]] : k \in 0..MaxFields} :
            \A i, j \in 1..Len(f) : f[i].key = f[j].key => i = j}}

InnerObjects == ObjectsOf(InnerKeys, {Leaf(n) : n \in LeafNumbers})
ArrayOfObjects ==
    Arr(<<[key |-> <<"0">>, value |-> Obj(<<[key |-> KeyId, value |-> Leaf(1)]>>)],
          [key |-> <<"1">>, value |-> Obj(<<[key |-> KeyId, value |-> Leaf(2)]>>)]>>)
TopValues ==
    {Leaf(n) : n \in LeafNumbers} \cup {NullValue, ArrayOfObjects, Arr(<<>>)}
        \cup InnerObjects
FlattenInputs == ObjectsOf(TopKeys, TopValues) \cup {NullValue, Leaf(1), ArrayOfObjects}

InitFlatten ==
    /\ configured = FALSE
    /\ tools = CatalogAB
    /\ clock = [t \in AllNames |-> 0]
    /\ ctl = 0
    /\ picksLeft = 0
    /\ W = InitW
    /\ X = InitX
    /\ U = InitU
    /\ P = InitP
    /\ sel = 0
    /\ \E result \in FlattenInputs :
          F = [fn |-> "flattenResult", result |-> result, done |-> FALSE, flat |-> <<>>]

ApplyFlatten ==
    /\ ~F.done
    /\ F' = [F EXCEPT !.done = TRUE, !.flat = flattenResult(F.result, <<>>)]
    /\ UNCHANGED <<agentVars, X, U, P, sel>>

NextFlatten == ApplyFlatten

SpecFlatten == InitFlatten /\ [][NextFlatten]_vars

(* selectNextTool of the two clients applied to the same arguments and    *)
(* the same reply of the LLM                                               *)

SelectContexts ==
    {<<>>,
     [t \in {"A"} |-> flattenResult(ToolPayload(1), <<>>)],
     [t \in {"A"} |-> flattenResult(Obj(<<[key |-> KeyB, value |-> Leaf(1)]>>), <<>>)]}
SelectDepths == {0, 1}
SelectMaxDepths == {1, 2}
NoDecision == [tool |-> NoTool, reason |-> ""]

InitSelect ==
    /\ configured = FALSE
    /\ tools = CatalogAB
    /\ clock = [t \in AllNames |-> 0]
    /\ ctl = 0
    /\ picksLeft = 0
    /\ W = InitW
    /\ X = InitX
    /\ U = InitU
    /\ P = InitP
    /\ sel = 0
    /\ \E executedTools \in SUBSET SeqToSet(CatalogAB), availableContext \in SelectContexts,
          currentDepth \in SelectDepths, maxDepth \in SelectMaxDepths,
          reply \in SelectReplies(SeqToSet(CatalogAB)) \cup ArrayReplies :
          F = [fn |-> "selectNextTool", availableTools |-> CatalogAB,
               executedTools |-> executedTools, availableContext |-> availableContext,
               currentDepth |-> currentDepth, maxDepth |-> maxDepth, reply |-> reply,
               done |-> FALSE, claude |-> NoDecision, gemini |-> NoDecision]

ApplySelect ==
    /\ ~F.done
    /\ F' = [F EXCEPT !.done = TRUE,
                      !.claude = ClaudeSelectNextTool(F.availableTools, F.executedTools,
                                     F.availableContext, F.currentDepth, F.maxDepth,
                                     F.reply),
                      !.gemini = GeminiSelectNextTool(F.availableTools, F.executedTools,
                                     F.availableContext, F.currentDepth, F.maxDepth,
                                     F.reply)]
    /\ UNCHANGED <<agentVars, X, U, P, sel>>

NextSelect == ApplySelect

SpecSelect == InitSelect /\ [][NextSelect]_vars

(* The resource graph, called directly with any arguments *)

GraphNames == {"A"}
GraphTimes == {1, 2}
GraphNodeIds == {ToolNodeId(n, t) : n \in GraphNames, t \in GraphTimes}
                    \cup {ToolNodeId("B", 1)}
GraphParamSources == UNION {[D -> GraphNodeIds] : D \in SUBSET Params}
GraphResults == {1, 2}

(* F keeps what the callers of the graph have seen: for each tool name the *)
(* result of the last recordToolExecution that found its node, since the   *)
(* last clear.                                                             *)
NoneCompleted == [fn |-> "recordToolExecution", completed |-> <<>>]

InitGraph ==
    /\ configured = FALSE
    /\ tools = CatalogAB
    /\ clock = [t \in AllNames |-> 0]
    /\ ctl = 0
    /\ picksLeft = 0
    /\ W = InitW
    /\ X = InitX
    /\ U = InitU
    /\ P = InitP
    /\ F = NoneCompleted
    /\ sel = 0

GraphAddPendingTool ==
    /\ \E toolName \in GraphNames, now \in GraphTimes :
          W' = [W EXCEPT !.graph = addPendingTool(@, toolName, now)]
    /\ UNCHANGED <<configured, tools, clock, ctl, picksLeft>>
    /\ UNCHANGED nonAgentVars

GraphMarkToolRunning ==
    /\ \E nodeId \in GraphNodeIds :
          W' = [W EXCEPT !.graph = markToolRunning(@, nodeId)]
    /\ UNCHANGED <<configured, tools, clock, ctl, picksLeft>>
    /\ UNCHANGED nonAgentVars

GraphRecordToolExecution ==
    /\ Len(W.graph.edges) < MaxGraphEdges
    /\ \E nodeId \in GraphNodeIds, result \in GraphResults,
          paramSources \in GraphParamSources :
          /\ W' = [W EXCEPT !.graph = recordToolExecution(@, nodeId, result, paramSources,
                                                          TimeSet)]
          /\ F' = IF nodeId \in DOMAIN W.graph.nodes
                  THEN [F EXCEPT !.completed = Put(@, W.graph.nodes[nodeId].name, result)]
                  ELSE F
    /\ UNCHANGED <<configured, tools, clock, ctl, picksLeft, X, U, P, sel>>

GraphMarkToolFailed ==
    /\ \E nodeId \in GraphNodeIds :
          W' = [W EXCEPT !.graph = markToolFailed(@, nodeId)]
    /\ UNCHANGED <<configured, tools, clock, ctl, picksLeft>>
    /\ UNCHANGED nonAgentVars

GraphMarkToolSkipped ==
    /\ \E nodeId \in GraphNodeIds :
          W' = [W EXCEPT !.graph = markToolSkipped(@, nodeId)]
    /\ UNCHANGED <<configured, tools, clock, ctl, picksLeft>>
    /\ UNCHANGED nonAgentVars

GraphClear ==
    /\ W' = [W EXCEPT !.graph = clear(@)]
    /\ F' = NoneCompleted
    /\ UNCHANGED <<configured, tools, clock, ctl, picksLeft, X, U, P, sel>>

NextGraph ==
    \/ GraphAddPendingTool
    \/ GraphMarkToolRunning
    \/ GraphRecordToolExecution
    \/ GraphMarkToolFailed
    \/ GraphMarkToolSkipped
    \/ GraphClear

SpecGraph == InitGraph /\ [][NextGraph]_vars

(* The indexer and the profile manager, called by their users *)

InitIndex ==
    /\ configured = FALSE
    /\ tools = CatalogAB
    /\ clock = [t \in AllNames |-> 0]
    /\ ctl = 0
    /\ picksLeft = 0
    /\ W = InitW
    /\ NonAgentInit

IndexResponse ==
    /\ X.calls < MaxIndexCalls
    /\ \E userProfileId \in UserArgs, toolName \in IndexTools, response \in Responses,
          writeOk \in BOOLEAN :
          X' = [indexResponse(X, U, userProfileId, toolName, response, writeOk)
                   EXCEPT !.calls = @ + 1]
    /\ UNCHANGED <<agentVars, F, sel, U, P>>

ClearIndex ==
    /\ \E writeOk \in BOOLEAN :
          X' = [clearIndex(X, writeOk) EXCEPT !.returned = <<>>, !.last = NoCall]
    /\ UNCHANGED <<agentVars, F, sel, U, P>>

(* The server is started again: a fresh indexer reads the file *)
RestartIndexer ==
    /\ X' = loadFromFile(X)
    /\ UNCHANGED <<agentVars, F, sel, U, P>>

AddProfile ==
    /\ \E id \in ProfileIds, displayName \in DisplayNames :
          /\ getProfile(U, id) = NoProfile
          /\ \E writeOk \in BOOLEAN : U' = addProfile(U, id, displayName, writeOk)
    /\ UNCHANGED <<agentVars, F, sel, X, P>>

NextIndex ==
    \/ IndexResponse
    \/ ClearIndex
    \/ RestartIndexer
    \/ AddProfile

SpecIndex == InitIndex /\ [][NextIndex]_vars

(* The profile manager, called by its users from an empty store.  F is    *)
(* the last call: its name, its id argument, the active profile id it      *)
(* found and what it threw; issued are the ids randomUUID() has given.     *)

StoreIds == {UserP1, UserP2}
UpdateInputs == {[displayName |-> "bob"], [displayName |-> "bob", id |-> UserP2]}
NoStoreCall == [fn |-> "new UserProfileManager", id |-> NoUser, activeBefore |-> NoUser,
                thrown |-> "", issued |-> {}]
StoreCall(fn, id, thrown) ==
    [F EXCEPT !.fn = fn, !.id = id, !.activeBefore = U.activeProfileId, !.thrown = thrown]

InitProfiles ==
    /\ configured = FALSE
    /\ tools = CatalogAB
    /\ clock = [t \in AllNames |-> 0]
    /\ ctl = 0
    /\ picksLeft = 0
    /\ W = InitW
    /\ X = InitX
    /\ U = InitU
    /\ P = InitP
    /\ F = NoStoreCall
    /\ sel = 0

StoreAddProfile(id, displayName, writeOk) ==
    /\ id \notin F.issued
    /\ U' = addProfile(U, id, displayName, writeOk)
    /\ F' = [StoreCall("addProfile", id, "") EXCEPT !.issued = @ \cup {id}]
    /\ UNCHANGED <<agentVars, X, P, sel>>

StoreUpdateProfile(id, data, writeOk) ==
    /\ U' = updateProfile(U, id, data, writeOk)
    /\ F' = StoreCall("updateProfile", id, ProfileRejection(U, id))
    /\ UNCHANGED <<agentVars, X, P, sel>>

StoreDeleteProfile(id, writeOk) ==
    /\ U' = deleteProfile(U, id, writeOk)
    /\ F' = StoreCall("deleteProfile", id, "")
    /\ UNCHANGED <<agentVars, X, P, sel>>

StoreSetActiveProfile(id, writeOk) ==
    /\ U' = setActiveProfile(U, id, writeOk)
    /\ F' = StoreCall("setActiveProfile", id, ProfileRejection(U, id))
    /\ UNCHANGED <<agentVars, X, P, sel>>

StoreClearActiveProfile(writeOk) ==
    /\ U' = clearActiveProfile(U, writeOk)
    /\ F' = StoreCall("clearActiveProfile", NoUser, "")
    /\ UNCHANGED <<agentVars, X, P, sel>>

NextProfiles ==
    \/ \E id \in StoreIds, displayName \in DisplayNames, writeOk \in BOOLEAN :
          StoreAddProfile(id, displayName, writeOk)
    \/ \E id \in StoreIds, data \in UpdateInputs, writeOk \in BOOLEAN :
          StoreUpdateProfile(id, data, writeOk)
    \/ \E id \in StoreIds, writeOk \in BOOLEAN : StoreDeleteProfile(id, writeOk)
    \/ \E id \in StoreIds, writeOk \in BOOLEAN : StoreSetActiveProfile(id, writeOk)
    \/ \E writeOk \in BOOLEAN : StoreClearActiveProfile(writeOk)

SpecProfiles == InitProfiles /\ [][NextProfiles]_vars

(* The proxy between its two transports *)

InitProxy == InitIndex

(* A message arrives from the client *)
ClientMessage(message) ==
    /\ P.client # "closed"
    /\ P.received < MaxProxyMessages
    /\ P' = [onClientMessage(P, message)
                EXCEPT !.received = @ + 1,
                       !.askedAs = IF isJSONRPCRequest(message)
                                   THEN MapSet(@, message.id, U.activeProfileId)
                                   ELSE @]
    /\ UNCHANGED <<agentVars, F, sel, X, U>>

(* The promise of a send to the server is fulfilled *)
SendResolves(i) ==
    /\ P.server = "open"
    /\ P' = [P EXCEPT !.sending = RemoveAt(@, i)]
    /\ UNCHANGED <<agentVars, F, sel, X, U>>

(* The promise of a send to the server is rejected *)
SendRejects(i, error) ==
    /\ P' = onSendRejected(P, i, error)
    /\ UNCHANGED <<agentVars, F, sel, X, U>>

(* A message arrives from the server *)
ServerMessage(message, writeOk, indexThrows) ==
    /\ P.server # "closed"
    /\ P.received < MaxProxyMessages
    /\ indexThrows => IndexesMessage(P, message)
    /\ P' = [onServerMessage(P, message, indexThrows)
                EXCEPT !.received = @ + 1,
                       !.fromServer = Append(@, [message |-> message,
                                                 indexThrew |-> indexThrows])]
    /\ IF IndexesMessage(P, message) /\ ~indexThrows
       THEN X' = [indexResponse(X, U, getActiveProfileId(U),
                                P.pendingRequests[message.id].toolName,
                                message.result, writeOk)
                     EXCEPT !.calls = @ + 1]
       ELSE X' = X
    /\ UNCHANGED <<agentVars, F, sel, U>>

(* The close event of the client transport fires *)
ClientCloses ==
    /\ P.client # "closed"
    /\ P' = onClientClose([P EXCEPT !.client = "closed"])
    /\ UNCHANGED <<agentVars, F, sel, X, U>>

(* The close event of the server transport fires *)
ServerCloses ==
    /\ P.server # "closed"
    /\ P' = onServerClose([P EXCEPT !.server = "closed"])
    /\ UNCHANGED <<agentVars, F, sel, X, U>>

NextProxy ==
    \/ \E message \in ClientMessages : ClientMessage(message)
    \/ \E i \in 1..Len(P.sending) : SendResolves(i)
    \/ \E i \in 1..Len(P.sending), error \in SendErrors : SendRejects(i, error)
    \/ \E message \in ServerMessages, writeOk \in BOOLEAN, indexThrows \in BOOLEAN :
          ServerMessage(message, writeOk, indexThrows)
    \/ ClientCloses
    \/ ServerCloses

SpecProxy == InitProxy /\ [][NextProxy]_vars

(* The proxy while the user switches the active profile: the store holds   *)
(* two profiles, tools/call requests go to the server and their responses  *)
(* come back.                                                              *)

TwoProfiles == addProfile(addProfile(InitU, UserP1, "alice", TRUE), UserP2, "bob", TRUE)

InitAttribution ==
    /\ configured = FALSE
    /\ tools = CatalogAB
    /\ clock = [t \in AllNames |-> 0]
    /\ ctl = 0
    /\ picksLeft = 0
    /\ W = InitW
    /\ X = InitX
    /\ U = TwoProfiles
    /\ P = InitP
    /\ F = NoApplication
    /\ sel = 0

SetActiveProfile(id, writeOk) ==
    /\ U' = setActiveProfile(U, id, writeOk)
    /\ UNCHANGED <<agentVars, F, sel, X, P>>

ClearActiveProfile(writeOk) ==
    /\ U' = clearActiveProfile(U, writeOk)
    /\ UNCHANGED <<agentVars, F, sel, X, P>>

NextAttribution ==
    \/ \E message \in ClientMessages : ClientMessage(message)
    \/ \E i \in 1..Len(P.sending) : SendResolves(i)
    \/ \E message \in ServerMessages, writeOk \in BOOLEAN, indexThrows \in BOOLEAN :
          ServerMessage(message, writeOk, indexThrows)
    \/ \E id \in StoreIds, writeOk \in BOOLEAN : SetActiveProfile(id, writeOk)
    \/ \E writeOk \in BOOLEAN : ClearActiveProfile(writeOk)

SpecAttribution == InitAttribution /\ [][NextAttribution]_vars

----------------------------------------------------------------------------
(* Properties *)

ToolEventTypes == {"tool_start", "tool_complete", "tool_failed", "tool_skipped"}

(* The events a step publishes *)
NewEvents == SubSeq(W'.events, Len(W.events) + 1, Len(W'.events))

(* A step that is start() going ahead *)
StartStep == Start /\ W'.thrown = ""

(* A step that is a continuation of an activation of the loop *)
LoopStep ==
    \E l \in DOMAIN W.loops :
        \/ ListToolsReturn(l) \/ ListToolsThrows(l) \/ AnalyzeReturn(l)
        \/ SelectReturn(l) \/ ExtractReturn(l) \/ LLMThrows(l)
        \/ ToolReturn(l) \/ ToolThrows(l)

(* C1: stop() makes the status idle and sets endTime, keeping the steps of *)
(* the history; from then on until the next start() the status stays idle  *)
(* and nothing but a status_change is published, also when a call that     *)
(* was in flight returns.                                                   *)
C1_StopIsFinal ==
    [][ /\ Stop => /\ W'.state.status = "idle"
                   /\ W'.state.endTime # NoTime
                   /\ W'.state.executionHistory = W.state.executionHistory
        /\ (W.state.status = "idle" /\ ~StartStep) =>
               /\ W'.state.status = "idle"
               /\ Len(W'.events) >= Len(W.events)
               /\ \A i \in 1..Len(NewEvents) : NewEvents[i].type = "status_change"
      ]_vars

(* C2: once paused, the status stays paused until resume(), stop() or a    *)
(* new start(): the loop does not complete the run, publishes no           *)
(* agent_complete and does not ask for the next tool.                       *)
C2_PauseHolds ==
    [][ (W.state.status = "paused" /\ ~Resume /\ ~Stop /\ ~StartStep) =>
            /\ W'.state.status = "paused"
            /\ \A i \in 1..Len(NewEvents) : NewEvents[i].type # "agent_complete"
            /\ \A l \in DOMAIN W'.loops :
                   W'.loops[l].pc = "select" =>
                       l \in DOMAIN W.loops /\ W.loops[l].pc = "select"
      ]_vars

(* C3: no tool event is published while the status is paused *)
C3_NoToolEventWhilePaused ==
    \A i \in 1..Len(W.events) :
        W.events[i].type \in ToolEventTypes => W.events[i].status # "paused"

(* C4: a continuation of the loop that runs after stop() has made the      *)
(* status idle writes no execution step, records nothing in the graph or   *)
(* its context table and starts no tool.                                    *)
C4_LateResultDiscarded ==
    [][ (W.state.status = "idle" /\ LoopStep) =>
            /\ W'.state.executionHistory = W.state.executionHistory
            /\ W'.graph = W.graph
            /\ W'.callLog = W.callLog
      ]_vars

C6_ConfiguredDepthKept ==
    [][ \/ \E m \in 0..MaxConfigDepth : Configure(m)
        \/ W'.state.maxDepth = W.state.maxDepth
      ]_vars

(* C7: currentDepth <= maxDepth, and every recorded step has               *)
(* 1 <= depth <= maxDepth.                                                  *)
C7_DepthBounded ==
    /\ W.state.currentDepth <= W.state.maxDepth
    /\ \A i \in 1..Len(W.state.executionHistory) :
           /\ 1 <= W.state.executionHistory[i].depth
           /\ W.state.executionHistory[i].depth <= W.state.maxDepth

(* C8: scenario S3.  When the run under maxDepth = 2 has executed A at     *)
(* depth 1 and B, its parameter taken from A, at depth 2, and the LLM has  *)
(* not declined to name a tool nor left a parameter unresolved, then C has *)
(* been flagged with "Exceeds max depth (3 > 2)", its node is skipped and  *)
(* it was not executed.                                                     *)
S3Executed ==
    /\ W.state.status = "completed"
    /\ W.state.maxDepth = 2
    /\ Len(W.state.executionHistory) = 2
    /\ W.state.executionHistory[1].toolName = "A"
    /\ W.state.executionHistory[1].depth = 1
    /\ W.state.executionHistory[1].status = "completed"
    /\ W.state.executionHistory[2].toolName = "B"
    /\ W.state.executionHistory[2].depth = 2
    /\ W.state.executionHistory[2].status = "completed"
    /\ W.state.executionHistory[2].parameterSources =
           [p \in {"x"} |-> W.state.executionHistory[1].nodeId]
    /\ W.stopReason \notin {ReasonLLM, ReasonNoSuitable}
    /\ \A i \in 1..Len(W.state.flaggedTools) :
           W.state.flaggedTools[i].reason # ReasonUnresolved

C8_DepthBoundS3 ==
    S3Executed =>
        /\ \E i \in 1..Len(W.state.flaggedTools) :
              LET f == W.state.flaggedTools[i]
              IN /\ f.toolName = "C"
                 /\ f.reason = ExceedsReason(3, 2)
                 /\ f.nodeId \in DOMAIN W.graph.nodes
                 /\ W.graph.nodes[f.nodeId].status = "skipped"
        /\ "C" \notin SeqToSet(W.callLog)

(* C9: when the extraction for the selected tool has missing parameters    *)
(* and a confidence below 0.5, the tool is flagged with "Could not resolve *)
(* required parameters from available context", its node becomes skipped,  *)
(* tool_skipped is published and toolCallFn is not invoked; with a         *)
(* confidence of 0.5 or more no tool is flagged for that reason.  An       *)
(* activation never invokes toolCallFn for a tool it has flagged so.       *)
C9_FlagStep ==
    \A l \in DOMAIN W.loops :
      (W.loops[l].pc = "extract" /\ UNCHANGED <<configured, tools, clock, ctl, picksLeft>>) =>
      \A ext \in Extractions(AllNames) \cup {ExtractFallback(W.loops[l].nextTool.tool)} :
        W' = AfterExtract(Quiet, l, ext, TimeSet) =>
          LET t  == W.loops[l].nextTool.tool
              id == W.loops[l].nodeId
              c  == IF ext.confidence = -1 THEN 0 ELSE ext.confidence
          IN IF ext.missingParams # {} /\ c < 5
             THEN /\ W'.state.flaggedTools =
                        Append(W.state.flaggedTools,
                               [toolName |-> t, missingParams |-> ext.missingParams,
                                reason |-> ReasonUnresolved, nodeId |-> id])
                  /\ id \in DOMAIN W.graph.nodes => W'.graph.nodes[id].status = "skipped"
                  /\ Len(NewEvents) >= 1
                  /\ NewEvents[1] = [type |-> "tool_skipped", tool |-> t,
                                     status |-> W.state.status]
                  /\ \A i \in 1..Len(NewEvents) : NewEvents[i].type # "tool_start"
                  /\ W'.callLog = W.callLog
                  /\ W'.state.executionHistory = W.state.executionHistory
             ELSE \A i \in 1..Len(W'.state.flaggedTools) :
                      W'.state.flaggedTools[i].reason = ReasonUnresolved =>
                          /\ i <= Len(W.state.flaggedTools)
                          /\ W'.state.flaggedTools[i] = W.state.flaggedTools[i]

C9_ConfidenceGuard ==
    /\ [][C9_FlagStep]_vars
    /\ [](\A l \in DOMAIN W.loops : W.loops[l].called \cap W.loops[l].unresolved = {})

(* A tool is flagged for unresolved parameters, its node is skipped and    *)
(* the activation that flagged it goes on                                   *)
C9_Witness ==
    /\ \E i \in 1..Len(W.state.flaggedTools) :
          /\ W.state.flaggedTools[i].reason = ReasonUnresolved
          /\ W.state.flaggedTools[i].nodeId \in DOMAIN W.graph.nodes
          /\ W.graph.nodes[W.state.flaggedTools[i].nodeId].status = "skipped"
    /\ \E l \in DOMAIN W.loops : W.loops[l].unresolved # {} /\ W.loops[l].pc = "select"
    /\ \E i \in 1..Len(W.events) : W.events[i].type = "tool_skipped"

(* C10: when the status is completed every step of the history is          *)
(* completed, failed or skipped.                                            *)
C10_CompletedRunHasNoOpenStep ==
    W.state.status = "completed" =>
        \A i \in 1..Len(W.state.executionHistory) :
            W.state.executionHistory[i].status \in {"completed", "failed", "skipped"}

(* C11: the events published since start() was accepted are                *)
(* status_change(running), then analysis_complete, then groups of a        *)
(* tool_start followed at once by the tool_complete or tool_failed of the  *)
(* same tool, or a tool_skipped alone, then agent_complete as the last     *)
(* one.  Later status_change events and error events are left aside.       *)
IsRunEvent(e) == e.type \in ToolEventTypes \cup {"analysis_complete", "agent_complete"}

RunEvents == SelectSeq(W.events, IsRunEvent)

C11_EventOrder ==
    /\ W.state.startTime # NoTime =>
          /\ W.events # <<>>
          /\ W.events[1].type = "status_change"
          /\ W.events[1].status = "running"
    /\ \A i \in 1..Len(RunEvents) :
          LET e == RunEvents[i]
          IN /\ e.type = "analysis_complete" <=> i = 1
             /\ e.type = "agent_complete" => i = Len(RunEvents)
             /\ (e.type = "tool_start" /\ i < Len(RunEvents)) =>
                    /\ RunEvents[i + 1].type \in {"tool_complete", "tool_failed"}
                    /\ RunEvents[i + 1].tool = e.tool
             /\ e.type \in {"tool_complete", "tool_failed"} =>
                    /\ i > 1
                    /\ RunEvents[i - 1].type = "tool_start"
                    /\ RunEvents[i - 1].tool = e.tool

(* C12: when toolCallFn throws, the step is failed with the message, the   *)
(* node is failed, tool_failed is published, nothing is thrown, the status *)
(* is not error, and an agent that is running and not aborted goes on to   *)
(* the next selectNextTool (which may answer at once that no tool is left  *)
(* or the depth is reached).                                                *)
C12_ToolFailureNonFatal ==
    [][ \A l \in DOMAIN W.loops :
          ToolThrows(l) =>
            LET L == W.loops[l]
            IN /\ L.step # NoStep =>
                     /\ W'.state.executionHistory[L.step].status = "failed"
                     /\ W'.state.executionHistory[L.step].error = MsgTool
               /\ L.nodeId \in DOMAIN W.graph.nodes =>
                     W'.graph.nodes[L.nodeId].status = "failed"
               /\ Len(NewEvents) >= 1
               /\ NewEvents[1].type = "tool_failed"
               /\ NewEvents[1].tool = L.nextTool.tool
               /\ W'.thrown = ""
               /\ W'.state.status # "error"
               /\ W'.state.error = W.state.error
               /\ (W.state.status = "running" /\ W.controller # "aborted") =>
                     \/ /\ Len(W'.loops) = Len(W.loops)
                        /\ W'.loops[l].pc = "select"
                        /\ W'.state.status = "running"
                     \/ /\ Len(W'.loops) < Len(W.loops)
                        /\ W'.stopReason \in {ReasonMaxDepth, ReasonAllExecuted}
      ]_vars

(* A tool call has failed and the activation that made it is at its next   *)
(* selection, the agent still running                                       *)
C12_Witness ==
    /\ W.state.status = "running"
    /\ \E i \in 1..Len(W.state.executionHistory) :
          LET st == W.state.executionHistory[i]
          IN /\ st.status = "failed"
             /\ st.error = MsgTool
             /\ st.nodeId \in DOMAIN W.graph.nodes
             /\ W.graph.nodes[st.nodeId].status = "failed"
             /\ \E l \in DOMAIN W.loops :
                   W.loops[l].pc = "select" /\ st.toolName \in W.loops[l].called
    /\ \E i \in 1..Len(W.events) : W.events[i].type = "tool_failed"

(* C13: when listToolsFn or an LLM operation throws inside the loop, the   *)
(* status becomes error, state.error is the message and an error event is  *)
(* published, whether start() or resume() entered the loop.                 *)
C13_LoopExceptionIsReported ==
    [][ \A l \in DOMAIN W.loops :
          (ListToolsThrows(l) \/ LLMThrows(l)) =>
              /\ W'.state.status = "error"
              /\ W'.state.error \in {MsgListTools, MsgLLM}
              /\ Len(NewEvents) = 1
              /\ NewEvents[1].type = "error"
      ]_vars

(* C14: a non-2xx reply of the LLM backend makes the operation return its  *)
(* fallback: the activation goes on as it does after a reply that does not *)
(* parse, nothing is thrown and the status does not become error.          *)
C14_TransportErrorFallsBack ==
    [][ \A l \in DOMAIN W.loops :
          LLMThrows(l) =>
              /\ W'.thrown = ""
              /\ W'.state.status # "error"
              /\ \/ W.loops[l].pc = "analyze" /\ W' = AfterAnalyze(Quiet, l, TimeSet)
                 \/ W.loops[l].pc = "select" /\
                       \E now \in 0..(MaxCtl + 1) : W' = AfterSelect(Quiet, l, BadJSON, now)
                 \/ W.loops[l].pc = "extract" /\
                       W' = AfterExtract(Quiet, l, ExtractFallback(W.loops[l].nextTool.tool),
                                         TimeSet)
      ]_vars

(* A step that is one call of indexResponse: the only thing that counts    *)
(* the calls                                                               *)
IndexStep == X'.calls = X.calls + 1

(* The entries of a list that have the given id and user *)
EntriesOf(resources, id, user) ==
    {i \in 1..Len(resources) :
        resources[i].id = id /\ resources[i].discoveredFromUser = user}

(* C15: the list never has two entries with the same id and the same       *)
(* discoveredFromUser; a missing user id is recorded as "anonymous"; every *)
(* identifier of the response just indexed has its entry for the user of   *)
(* that call, whoever else has discovered it; and indexResponse removes    *)
(* nothing.                                                                 *)
C15_OneEntryPerIdAndUser ==
    /\ [](/\ \A i, j \in 1..Len(X.resources) :
               (/\ X.resources[i].id = X.resources[j].id
                /\ X.resources[i].discoveredFromUser = X.resources[j].discoveredFromUser)
               => i = j
          /\ \A i \in 1..Len(X.resources) : X.resources[i].discoveredFromUser # NoUser
          /\ X.last.called =>
               \A k \in 1..Len(X.last.extracted) :
                   Cardinality(EntriesOf(X.resources, X.last.extracted[k].id,
                                         OrAnonymous(X.last.userProfileId))) = 1)
    /\ [][IndexStep =>
             SubSeq(X'.resources, 1, Len(X.resources)) = X.resources]_vars

(* One identifier has two entries, one for the profile p1 and one for      *)
(* "anonymous"                                                              *)
C15_Witness ==
    \E i, j \in 1..Len(X.resources) :
        /\ X.resources[i].id = X.resources[j].id
        /\ X.resources[i].discoveredFromUser = UserP1
        /\ X.resources[j].discoveredFromUser = Anonymous

(* C16: a call of indexResponse returns exactly the entries it appended   *)
(* to the list; a call with the user and the identifiers of the call just  *)
(* before it returns nothing and leaves the list as it was; and no         *)
(* identifier is returned twice by one call.                               *)
C16_ReturnsWhatItAdded ==
    [][IndexStep =>
          /\ X'.resources = X.resources \o X'.returned
          /\ (X.last.called /\ X'.last = X.last) =>
                 (X'.returned = <<>> /\ X'.resources = X.resources)
          /\ \A i, j \in 1..Len(X'.returned) :
                 X'.returned[i].id = X'.returned[j].id => i = j]_vars

(* The second call presented one identifier twice, for a user that already *)
(* had it: nothing returned, one entry in the list                         *)
C16_Witness ==
    /\ X.calls = 2
    /\ X.last.called
    /\ Len(X.last.extracted) = 2
    /\ X.last.extracted[1].id = X.last.extracted[2].id
    /\ X.returned = <<>>
    /\ Len(X.resources) = 1

(* The response {"id": <id>}, which presents one identifier *)
ResponseOf(id) ==
    [form |-> "object", object |-> <<[fieldName |-> "id", value |-> Str(id)]>>,
     text |-> <<>>]

(* The file holds what saveToFile writes for the list in memory *)
Saved == X.file.exists /\ X.file.text = JSONStringify(X.resources)

C18_ResponseRemovesEntry ==
    [][\A message \in ServerMessages, writeOk \in BOOLEAN, indexThrows \in BOOLEAN :
          (/\ ServerMessage(message, writeOk, indexThrows)
           /\ message.kind = "response"
           /\ message.id \in DOMAIN P.pendingRequests)
          => message.id \notin DOMAIN P'.pendingRequests]_vars

(* C19: when the send of a client request to the server rejects while the  *)
(* client connection is open, the error response with code -32001, the     *)
(* request's id and the error's message is sent to the client, and the     *)
(* table holds no entry for that id afterwards.                            *)
C19_SendFailureAnswered ==
    [][\A i \in 1..Len(P.sending), error \in SendErrors :
          (/\ SendRejects(i, error)
           /\ isJSONRPCRequest(P.sending[i])
           /\ P.client = "open"
           /\ ~P.transportToClientClosed)
          => /\ Len(P'.toClient) = Len(P.toClient) + 1
             /\ P'.toClient[Len(P'.toClient)].message =
                    Message("response", P.sending[i].id, "", "", "error",
                            SynthesizedErrorCode, error, EmptyResult)
             /\ P.sending[i].id \notin DOMAIN P'.pendingRequests]_vars

(* C20: no synthesized error response is sent on the client transport      *)
(* after that transport has closed, and a rejected send of a notification  *)
(* or of a response sends nothing to the client.                           *)
C20_NoSendAfterClientClosed ==
    /\ [](\A k \in 1..Len(P.toClient) :
             P.toClient[k].synthesized => P.toClient[k].transport # "closed")
    /\ [][\A i \in 1..Len(P.sending), error \in SendErrors :
             (SendRejects(i, error) /\ ~isJSONRPCRequest(P.sending[i]))
             => P'.toClient = P.toClient]_vars

(* C21: the proxy calls close() at most once in all; once a close event   *)
(* has fired it has called close() exactly once, on the transport other    *)
(* than the one whose close event it acted on, and the close event of that *)
(* second transport calls nothing.                                         *)
C21_ClosePropagatesOnce ==
    /\ [](/\ P.closeCalls.client + P.closeCalls.server <= 1
          /\ (P.client = "closed" \/ P.server = "closed") =>
                 /\ P.closeCalls.client + P.closeCalls.server = 1
                 /\ P.transportToClientClosed => P.closeCalls.server = 1
                 /\ P.transportToServerClosed => P.closeCalls.client = 1)
    /\ [][(ClientCloses /\ P.transportToServerClosed) \/
          (ServerCloses /\ P.transportToClientClosed)
             => P'.closeCalls = P.closeCalls]_vars

(* The server transport closed first, the proxy closed the client          *)
(* transport, and the close event of the client transport has fired        *)
C21_Witness ==
    /\ P.transportToServerClosed
    /\ P.server = "closed"
    /\ P.client = "closed"
    /\ P.closeCalls = [client |-> 1, server |-> 0]

(* C22: after the close event of either transport has been handled the     *)
(* table of pending requests is empty.                                     *)
C22_TableEmptyAfterClose ==
    [][(ClientCloses \/ ServerCloses) => P'.pendingRequests = NoPending]_vars

(* C23: the source and the target of every edge of the graph are ids of    *)
(* nodes of the graph.                                                     *)
C23_EdgesJoinNodes ==
    \A i \in 1..Len(W.graph.edges) :
        /\ W.graph.edges[i].source \in DOMAIN W.graph.nodes
        /\ W.graph.edges[i].target \in DOMAIN W.graph.nodes

(* A graph with as many edges as the bound allows, one from a tool node to *)
(* a tool node and one from a tool node to a resource node                 *)
C23_Witness ==
    /\ \E i \in 1..Len(W.graph.edges) : W.graph.edges[i].relation = "provided"
    /\ \E i \in 1..Len(W.graph.edges) : W.graph.edges[i].relation = "discovered"
    /\ Len(W.graph.edges) = MaxGraphEdges

TerminalStatuses == {"completed", "failed", "skipped"}

(* C24: a tool node that is completed, failed or skipped keeps its status  *)
(* in every step but a start() that clears the graph.                      *)
C24_TerminalNodesStay ==
    [][~StartStep =>
          \A id \in DOMAIN W.graph.nodes :
              (/\ W.graph.nodes[id].type = "tool"
               /\ W.graph.nodes[id].status \in TerminalStatuses)
              => /\ id \in DOMAIN W'.graph.nodes
                 /\ W'.graph.nodes[id].status = W.graph.nodes[id].status]_vars

(* C27: while the agent is running and its abort signal is not set, at     *)
(* most one activation of runExecutionLoop has not returned.               *)
C27_OneActiveLoop ==
    (W.state.status = "running" /\ W.controller # "aborted") => Len(W.loops) <= 1

(* C28: since start() was last accepted, toolCallFn has been invoked at    *)
(* most once for each tool name.                                           *)
C28_ToolCalledOnce ==
    \A i, j \in 1..Len(W.callLog) : W.callLog[i] = W.callLog[j] => i = j

(* C30: when the status is completed or error, no tool node of the graph   *)
(* is pending or running.                                                  *)
C30_EndedRunHasNoOpenNode ==
    W.state.status \in {"completed", "error"} =>
        \A id \in DOMAIN W.graph.nodes :
            W.graph.nodes[id].type = "tool" =>
                W.graph.nodes[id].status \in TerminalStatuses

(* C29: a run that is running eventually is not running any more.          *)
C29_RunEnds ==
    (W.state.status = "running") ~> (W.state.status # "running")

(* The leaves of an object: for each the key that holds it, its dotted     *)
(* path from the root and its value                                        *)
RECURSIVE LeavesOf(_, _)
LeavesOf(value, prefix) ==
    IF value.kind # "object" THEN {}
    ELSE UNION {LET e == value.items[i]
                    path == NewPrefix(prefix, e.key)
                IN IF e.value.kind \in {"leaf", "null"}
                   THEN {[key |-> e.key, path |-> path, value |-> e.value]}
                   ELSE LeavesOf(e.value, path) : i \in 1..Len(value.items)}

(* C25: in the flattened form of an object every leaf of the object is     *)
(* found under its bare key and under its dotted path, with its value.     *)
C25_FlattenKeepsLeaves ==
    (F.fn = "flattenResult" /\ F.done) =>
        \A lf \in LeavesOf(F.result, <<>>) :
            /\ lf.key \in DOMAIN F.flat
            /\ lf.path \in DOMAIN F.flat
            /\ F.flat[lf.key] = lf.value
            /\ F.flat[lf.path] = lf.value

(* C26: for the same arguments and the same reply of the LLM, a reply     *)
(* that cannot be parsed or a reply whose tool is null, selectNextTool of  *)
(* ClaudeClient and of GeminiClient name the same tool, or both none.      *)
C26_ClientsAgree ==
    (F.fn = "selectNextTool" /\ F.done /\ F.reply \in {BadJSON, NoTool})
        => F.claude.tool = F.gemini.tool

(* The edges of a graph as pairs, the targets of a node's edges, and the   *)
(* nodes reached from a set of nodes along at most k more edges            *)
EdgePairs(G) == {<<G.edges[i].source, G.edges[i].target>> : i \in 1..Len(G.edges)}
Successors(E, S) == {e[2] : e \in {f \in E : f[1] \in S}}
RECURSIVE ReachedFrom(_, _, _)
ReachedFrom(E, S, k) ==
    IF k = 0 THEN S ELSE ReachedFrom(E, S \cup Successors(E, S), k - 1)
HasCycle(G) ==
    LET E == EdgePairs(G)
    IN \E n \in DOMAIN G.nodes :
          n \in ReachedFrom(E, Successors(E, {n}), Cardinality(DOMAIN G.nodes))

(* C31: the resource graph of the agent is a DAG in every reachable state: *)
(* no directed cycle of edges, and so no edge from a node to itself,       *)
(* whatever source labels the LLM returns for a tool's parameters.         *)
C31_GraphIsDAG == ~HasCycle(W.graph)

(* C32: every call of addPendingTool creates a tool node whose id is not   *)
(* the id of a node already in the graph, and replaces no node: the graph  *)
(* has one node more and every node it had is as it was.                   *)
C32_AddPendingToolAddsNode ==
    [][GraphAddPendingTool =>
          /\ Cardinality(DOMAIN W'.graph.nodes) = Cardinality(DOMAIN W.graph.nodes) + 1
          /\ \A id \in DOMAIN W.graph.nodes :
                id \in DOMAIN W'.graph.nodes /\ W'.graph.nodes[id] = W.graph.nodes[id]]_vars

(* C33: getAvailableContext has an entry for a tool name exactly when     *)
(* recordToolExecution has completed a node of that name since the last    *)
(* clear, and the entry is the flattened result of the last such           *)
(* execution; marking a node running, failed or skipped changes no entry.  *)
C33_ContextIsLastCompleted ==
    /\ DOMAIN getAvailableContext(W.graph) = DOMAIN F.completed
    /\ \A t \in DOMAIN F.completed :
          getAvailableContext(W.graph)[t] = flattenResult(ToolPayload(F.completed[t]), <<>>)

(* A second execution of A has replaced the entry of the first, and the    *)
(* node of A was marked failed afterwards.                                 *)
C33_Witness ==
    /\ "A" \in DOMAIN F.completed
    /\ F.completed["A"] = 2
    /\ \E id \in DOMAIN W.graph.nodes :
          /\ W.graph.nodes[id].name = "A"
          /\ W.graph.nodes[id].status = "failed"
          /\ W.graph.nodes[id].result = 1

(* The list in memory is what a reader of the file gets *)
FileHoldsList(x) == x.file.exists /\ JSONParse(x.file.text) = x.resources

(* C34: the indexer persists on every mutation: an indexResponse call that *)
(* added an entry and every clearIndex call write the file, and when the   *)
(* write succeeds the file holds the list in memory; an indexResponse call *)
(* that adds nothing does not write the file.                              *)
C34_PersistsOnMutation ==
    [][/\ (IndexStep /\ X'.returned # <<>>) =>
              /\ X'.write # "none"
              /\ X'.write = "ok" => FileHoldsList(X')
       /\ (IndexStep /\ X'.returned = <<>>) =>
              /\ X'.write = "none"
              /\ X'.file = X.file
       /\ ClearIndex =>
              /\ X'.write # "none"
              /\ X'.write = "ok" => FileHoldsList(X')]_vars

(* A second indexResponse added an entry to a list that had one, and the   *)
(* file was written with both.                                             *)
C34_Witness ==
    /\ X.last.called
    /\ X.write = "ok"
    /\ X.returned # <<>>
    /\ Len(X.resources) > Len(X.returned)
    /\ FileHoldsList(X)

(* C35: a failure to write the file does not fail indexResponse: the call  *)
(* returns its new entries, and they are in the list in memory and their   *)
(* keys in the dedup set, so that no later call adds an entry with the     *)
(* same id and user.                                                       *)
C35_WriteFailureKeepsMemory ==
    [][IndexStep =>
          /\ X'.write = "failed" =>
                /\ X'.returned # <<>>
                /\ \A i \in 1..Len(X'.returned) :
                      /\ \E j \in 1..Len(X'.resources) : X'.resources[j] = X'.returned[i]
                      /\ UniqueKey(X'.returned[i].id, X'.returned[i].discoveredFromUser)
                            \in X'.seenIds
          /\ \A i \in 1..Len(X'.returned) :
                UniqueKey(X'.returned[i].id, X'.returned[i].discoveredFromUser)
                    \notin X.seenIds]_vars

(* The write of a first call failed and a later call with the same id and  *)
(* user has added nothing.                                                 *)
C35_Witness ==
    /\ X.last.called
    /\ X.last.extracted # <<>>
    /\ X.returned = <<>>
    /\ ~X.file.exists
    /\ \A i \in 1..Len(X.last.extracted) :
          UniqueKey(X.last.extracted[i].id, OrAnonymous(X.last.userProfileId)) \in X.seenIds
    /\ X.resources # <<>>

(* What was sent to the client by the server handler, in order *)
Forwarded ==
    LET sent == SelectSeq(P.toClient, LAMBDA e : ~e.synthesized)
    IN [i \in 1..Len(sent) |-> sent[i].message]

(* C36: every message received from the server transport is sent on the   *)
(* client transport exactly once, in the order of arrival, whether or not  *)
(* it is the response of a recorded tools/call and whether or not          *)
(* indexing it throws.                                                     *)
C36_ServerMessagesForwarded ==
    Forwarded = [i \in 1..Len(P.fromServer) |-> P.fromServer[i].message]

(* Indexing a tools/call response threw, an uncorrelated message arrived   *)
(* as well, and both were sent.                                            *)
C36_Witness ==
    /\ \E i \in 1..Len(P.fromServer) : P.fromServer[i].indexThrew
    /\ \E i \in 1..Len(P.fromServer) : P.fromServer[i].message.kind = "notification"
    /\ Len(Forwarded) = Len(P.fromServer)

(* C37: pause() called in a status other than running and resume() called *)
(* in a status other than paused leave the status and the rest of the      *)
(* agent's state as they are, emit no event, and resume() starts no        *)
(* activation of the execution loop.                                       *)
C37_PauseResumeGuarded ==
    [][/\ (PauseCalled /\ W.state.status # "running") =>
              /\ W'.state = W.state /\ W'.events = W.events /\ W'.loops = W.loops
              /\ W'.graph = W.graph /\ W'.controller = W.controller
              /\ W'.thrown = ""
       /\ (ResumeCalled /\ W.state.status # "paused") =>
              /\ W'.state = W.state /\ W'.events = W.events /\ W'.loops = W.loops
              /\ W'.graph = W.graph /\ W'.controller = W.controller
              /\ W'.thrown = ""]_vars

(* resume() was called on a running agent whose run then went on to call a *)
(* tool, with one activation of the loop.                                  *)
C37_Witness ==
    /\ F.fn = "resume"
    /\ F.status = "running"
    /\ Len(W.loops) = 1
    /\ W.callLog # <<>>

(* activeProfileId is null or the id of a profile of the store *)
ActiveProfileExists ==
    U.activeProfileId = NoUser \/ getProfile(U, U.activeProfileId) # NoProfile

(* C39: in the profile store, which starts empty with no active profile,   *)
(* every call leaves activeProfileId null or the id of a profile of the    *)
(* store; setActiveProfile and updateProfile with an id the store does not *)
(* have throw and leave the profiles and activeProfileId as they are;      *)
(* deleting the active profile sets activeProfileId to null.               *)
C39_ActiveProfileIsStored ==
    [][/\ ActiveProfileExists'
       /\ (F'.fn \in {"setActiveProfile", "updateProfile"} /\ F' # F
           /\ getProfile(U, F'.id) = NoProfile) =>
              /\ F'.thrown = MsgProfileNotFound
              /\ U'.profiles = U.profiles
              /\ U'.activeProfileId = U.activeProfileId
       /\ (F'.fn = "deleteProfile" /\ F' # F /\ F'.id = U.activeProfileId
           /\ U.activeProfileId # NoUser) =>
              U'.activeProfileId = NoUser]_vars

(* The active profile was deleted while another profile stays in the       *)
(* store, and no profile is active.                                        *)
C39_Witness ==
    /\ F.fn = "deleteProfile"
    /\ F.activeBefore = F.id
    /\ F.id # NoUser
    /\ U.activeProfileId = NoUser
    /\ U.profiles # <<>>

(* C38: the resources indexed from a tools/call response that the proxy   *)
(* sees are attributed to the profile that is active when the response     *)
(* arrives, "anonymous" when none is, whatever profile was active when     *)
(* the request was forwarded.                                              *)
C38_AttributedToProfileAtResponse ==
    [][IndexStep =>
          /\ X'.last.userProfileId = U.activeProfileId
          /\ \A i \in 1..Len(X'.returned) :
                X'.returned[i].discoveredFromUser = OrAnonymous(U.activeProfileId)]_vars

(* A request was forwarded while one profile was active, and the resources *)
(* of its response are attributed to the other profile, active since.      *)
C38_Witness ==
    /\ X.returned # <<>>
    /\ 1 \in DOMAIN P.askedAs
    /\ P.askedAs[1] = UserP1
    /\ 1 \notin DOMAIN P.pendingRequests
    /\ P.received = 2
    /\ X.returned[1].discoveredFromUser = UserP2
    /\ U.activeProfileId = UserP2

====
